---- MODULE Spec2Model ----
(***************************************************************************)
(* gerrit-review-parser: the `parse` command's pipeline                    *)
(*   raw text -> parse_json_content -> extract_comments -> output          *)
(* modelled from src/gerrit/src/gerrit_review_parser/{parser,cli,display,  *)
(* models}.py.                                                             *)
(*                                                                         *)
(* Python values are tagged records [t, v]:                                *)
(*   dict  v: a function from keys (TLA+ strings) to values                *)
(*   list  v: a sequence of values                                         *)
(*   str   v: a sequence of one-character strings                          *)
(*   int   v: an integer          bool  v: a BOOLEAN                       *)
(* Text (the raw JSON, file paths, messages) is a sequence of              *)
(* one-character strings, so that it can be scanned and compared           *)
(* character by character as the code does.                                *)
(***************************************************************************)
EXTENDS Integers, Sequences, FiniteSets, TLC

VARIABLES
    pc,               \* position of the invocation in cli.parse
    json_content,     \* the raw text handed to parse_json_content
    data,             \* the parsed review (a tagged value), PyNone before
    unresolved_only,  \* --unresolved-only
    json_output,      \* --json
    comments,         \* the list extract_comments returned
    stdout,           \* the lines written to standard output
    stderr,           \* the diagnostics logged (fatal, error)
    exit_code,        \* the process's exit status, Running until it ends
    error,            \* the exception that ended the invocation, or "none"
    calls,            \* the pipeline functions entered so far, in order
    files,            \* the local checkout: path -> file
    argv,             \* the other options of `parse`: --file, --changeid,
                      \* --query, --save, --output, --dry-run
    stdin,            \* standard input: a terminal, or a text to read
    environ,          \* os.environ: variable name -> value
    home,             \* the home directory: config.toml and .env.gerrit
    remote,           \* what the ssh process does when it is run
    ran,              \* the commands subprocess.run was given, in order
    written,          \* the files write_file wrote: <<name, content>>
    result,           \* what a configuration function returned or raised
    call              \* the arguments of a function called on its own

\* the surroundings of the pipeline: options, environment, processes
world == <<argv, stdin, environ, home, remote, ran, written, result, call>>

vars == <<pc, json_content, data, unresolved_only, json_output, comments,
          stdout, stderr, exit_code, error, calls, files, world>>

(***************************************************************************)
(* Bounds of the model.                                                    *)
(***************************************************************************)
MaxRaw == 3          \* longest input enumerated over the whole alphabet
MaxBody == 2         \* most pieces in the body of a generated JSON string
MaxTrail == 1        \* longest enumerated trailing text after an object
MaxPatchSets == 2    \* most patch sets in a generated review
MaxTotal == 3        \* most comment records in a generated review
MaxMalformed == 1    \* most malformed records among them
MaxComments == 3     \* most comments handed to the output
MaxLines == 4        \* most lines of a file whose context is shown
MaxLineNum == 6      \* largest line number a comment is placed on
MaxRadius == 3       \* largest context radius

Running == -1

(***************************************************************************)
(* Python values.                                                          *)
(***************************************************************************)
PyNone == [t |-> "none", v |-> 0]
PyDict(f) == [t |-> "dict", v |-> f]
PyList(s) == [t |-> "list", v |-> s]
PyStr(s) == [t |-> "str", v |-> s]
PyInt(n) == [t |-> "int", v |-> n]
PyBool(b) == [t |-> "bool", v |-> b]

EmptyMap == [k \in {} |-> PyNone]
Put(m, k, val) == [x \in (DOMAIN m) \cup {k} |-> IF x = k THEN val ELSE m[x]]

\* key in d
HasKey(d, k) == k \in DOMAIN d.v
\* d.get(k, default)
Get(d, k, default) == IF HasKey(d, k) THEN d.v[k] ELSE default

\* max(a, b)
Max(a, b) == IF a >= b THEN a ELSE b

\* min as it would be if it returned its first argument
MinFirst(a, b) == a

\* min(a, b)
Min(a, b) == IF a <= b THEN a ELSE b

\* the concatenation of a sequence of texts
RECURSIVE Concat(_)
Concat(ss) ==
    IF ss = <<>> THEN <<>>
    ELSE IF Len(ss) = 1 THEN ss[1]
    ELSE Concat(SubSeq(ss, 1, Len(ss) \div 2))
         \o Concat(SubSeq(ss, Len(ss) \div 2 + 1, Len(ss)))

\* int.__repr__ of a natural number
DigitChar == <<"0", "1", "2", "3", "4", "5", "6", "7", "8", "9">>
RECURSIVE IntChars(_)
IntChars(n) ==
    IF n < 10 THEN <<DigitChar[n + 1]>>
    ELSE IntChars(n \div 10) \o <<DigitChar[(n % 10) + 1]>>

RECURSIVE Join(_)
Join(s) == IF s = <<>> THEN "" ELSE Head(s) \o Join(Tail(s))

(***************************************************************************)
(* The characters of the model's JSON texts.  "n" is the one letter (and   *)
(* a valid escape, \n), "1" the one digit.                                 *)
(***************************************************************************)
Whitespace == {" ", "\n"}
ControlChars == {"\n"}
Chars == {"{", "}", "\"", "\\", ":", ",", "1", "n"} \cup Whitespace

(***************************************************************************)
(* json.loads on the model's alphabet: objects, strings and integers,      *)
(* with the decoder's whitespace, escape and "Extra data" rules.           *)
(*   ok = FALSE  stands for  json.JSONDecodeError.                         *)
(***************************************************************************)
Bad == [ok |-> FALSE, val |-> PyNone, pos |-> 0]
Good(val, p) == [ok |-> TRUE, val |-> val, pos |-> p]

\* s[p:p+1] (1-based p): the character, or "" beyond the end
At(s, p) == IF p >= 1 /\ p <= Len(s) THEN s[p] ELSE ""

RECURSIVE SkipWs(_, _)
SkipWs(s, p) == IF At(s, p) \in Whitespace THEN SkipWs(s, p + 1) ELSE p

\* json.decoder.BACKSLASH, on this alphabet
BACKSLASH == ("\"" :> "\"") @@ ("\\" :> "\\") @@ ("n" :> "\n")

\* py_scanstring(s, end, strict=True): p is just after the opening quote.
\* Each round takes a chunk, the plain characters up to the next quote,
\* backslash or control character, and then that terminator.
RECURSIVE ScanString(_, _, _)
ScanString(s, p, acc) ==
    LET stops == {i \in p..Len(s) : s[i] = "\"" \/ s[i] = "\\" \/ s[i] \in ControlChars}
    IN  IF stops = {} THEN Bad
        ELSE LET end == CHOOSE i \in stops : \A j \in stops : i <= j
                 content == acc \o SubSeq(s, p, end - 1)
             IN  IF s[end] = "\"" THEN Good(PyStr(content), end + 1)
                 ELSE IF s[end] = "\\" THEN
                     IF end + 1 > Len(s) THEN Bad
                     ELSE IF s[end + 1] \in DOMAIN BACKSLASH
                          THEN ScanString(s, end + 2,
                                          Append(content, BACKSLASH[s[end + 1]]))
                          ELSE Bad
                 ELSE Bad

\* the decimal digits and their values
Digit ==
    ("0" :> 0) @@ ("1" :> 1) @@ ("2" :> 2) @@ ("3" :> 3) @@ ("4" :> 4) @@
    ("5" :> 5) @@ ("6" :> 6) @@ ("7" :> 7) @@ ("8" :> 8) @@ ("9" :> 9)

\* NUMBER_RE.match at p, (0|[1-9]\d*): a lone 0, or the run of digits
RECURSIVE ScanNumber(_, _, _)
ScanNumber(s, p, acc) ==
    IF acc = 0 /\ At(s, p) = "0" THEN Good(PyInt(0), p + 1)
    ELSE IF At(s, p) \in DOMAIN Digit
    THEN ScanNumber(s, p + 1, acc * 10 + Digit[At(s, p)])
    ELSE Good(PyInt(acc), p)

\* s[p:p+len(word)] == word
StartsWithAt(s, p, word) ==
    /\ p + Len(word) - 1 <= Len(s)
    /\ SubSeq(s, p, p + Len(word) - 1) = word

RECURSIVE ScanOnce(_, _)
RECURSIVE ObjectMembers(_, _, _)
RECURSIVE ArrayItems(_, _, _)

\* JSONArray: p is just after the opening bracket
JSONArray(s, p) ==
    LET q == SkipWs(s, p)
    IN  IF At(s, q) = "]" THEN Good(PyList(<<>>), q + 1)
        ELSE ArrayItems(s, q, <<>>)

\* the `while True` loop of JSONArray: p is where the next value starts
ArrayItems(s, p, acc) ==
    LET val == ScanOnce(s, p)
    IN  IF ~val.ok THEN Bad
        ELSE LET e == SkipWs(s, val.pos)
                 acc2 == Append(acc, val.val)
             IN  IF At(s, e) = "]" THEN Good(PyList(acc2), e + 1)
                 ELSE IF At(s, e) # "," THEN Bad
                 ELSE ArrayItems(s, SkipWs(s, e + 1), acc2)

\* JSONObject: p is just after the opening brace
JSONObject(s, p) ==
    LET q == SkipWs(s, p)
    IN  IF At(s, q) = "}" THEN Good(PyDict(EmptyMap), q + 1)
        ELSE IF At(s, q) # "\"" THEN Bad
        ELSE ObjectMembers(s, q + 1, EmptyMap)

\* the `while True` loop of JSONObject: p is just after a key's opening quote
ObjectMembers(s, p, acc) ==
    LET k == ScanString(s, p, <<>>)
    IN  IF ~k.ok THEN Bad
        ELSE LET c == SkipWs(s, k.pos)
             IN  IF At(s, c) # ":" THEN Bad
                 ELSE LET val == ScanOnce(s, SkipWs(s, c + 1))
                      IN  IF ~val.ok THEN Bad
                          ELSE LET e == SkipWs(s, val.pos)
                                   acc2 == Put(acc, Join(k.val.v), val.val)
                               IN  IF At(s, e) = "}" THEN Good(PyDict(acc2), e + 1)
                                   ELSE IF At(s, e) # "," THEN Bad
                                   ELSE LET n == SkipWs(s, e + 1)
                                        IN  IF At(s, n) # "\"" THEN Bad
                                            ELSE ObjectMembers(s, n + 1, acc2)

\* scanner.py_make_scanner._scan_once
ScanOnce(s, p) ==
    LET c == At(s, p)
    IN  IF c = "\"" THEN ScanString(s, p + 1, <<>>)
        ELSE IF c = "{" THEN JSONObject(s, p + 1)
        ELSE IF c = "[" THEN JSONArray(s, p + 1)
        ELSE IF StartsWithAt(s, p, <<"n", "u", "l", "l">>) THEN Good(PyNone, p + 4)
        ELSE IF StartsWithAt(s, p, <<"t", "r", "u", "e">>) THEN Good(PyBool(TRUE), p + 4)
        ELSE IF StartsWithAt(s, p, <<"f", "a", "l", "s", "e">>)
        THEN Good(PyBool(FALSE), p + 5)
        ELSE IF c \in DOMAIN Digit THEN ScanNumber(s, p, 0)
        ELSE Bad

\* json.loads(s): JSONDecoder.decode
JsonLoads(s) ==
    LET r == ScanOnce(s, SkipWs(s, 1))
    IN  IF ~r.ok THEN [ok |-> FALSE, val |-> PyNone]
        ELSE IF SkipWs(s, r.pos) # Len(s) + 1 THEN [ok |-> FALSE, val |-> PyNone]
        ELSE [ok |-> TRUE, val |-> r.val]

(***************************************************************************)
(* parse_json_content: the brace-counting scan for the first object.       *)
(***************************************************************************)
ScanInit == [depth |-> 0, in_string |-> FALSE, escape |-> FALSE, returned |-> FALSE]

\* ScanStep as it would be if braces were counted inside strings too
ScanStepNoStrings(st, char) ==
    IF st.escape THEN [st EXCEPT !.escape = FALSE]
    ELSE IF char = "\\" THEN [st EXCEPT !.escape = TRUE]
    ELSE IF char = "{" THEN [st EXCEPT !.depth = st.depth + 1]
    ELSE IF char = "}"
         THEN [st EXCEPT !.depth = st.depth - 1, !.returned = (st.depth - 1 = 0)]
    ELSE st

\* ScanStep as it would be without the escape flag: every quote toggles
ScanStepNoEscape(st, char) ==
    LET ins == IF char = "\"" THEN ~st.in_string ELSE st.in_string
    IN  IF ins THEN [st EXCEPT !.in_string = ins]
        ELSE IF char = "{"
             THEN [st EXCEPT !.in_string = ins, !.depth = st.depth + 1]
        ELSE IF char = "}"
             THEN [st EXCEPT !.in_string = ins, !.depth = st.depth - 1,
                             !.returned = (st.depth - 1 = 0)]
        ELSE [st EXCEPT !.in_string = ins]

\* ScanStep as it would be if a backslash counted only inside a string
ScanStepEscapeInString(st, char) ==
    IF st.escape THEN [st EXCEPT !.escape = FALSE]
    ELSE IF char = "\\" /\ st.in_string THEN [st EXCEPT !.escape = TRUE]
    ELSE LET ins == IF char = "\"" THEN ~st.in_string ELSE st.in_string
         IN  IF ins THEN [st EXCEPT !.in_string = ins]
             ELSE IF char = "{"
                  THEN [st EXCEPT !.in_string = ins, !.depth = st.depth + 1]
             ELSE IF char = "}"
                  THEN [st EXCEPT !.in_string = ins, !.depth = st.depth - 1,
                                  !.returned = (st.depth - 1 = 0)]
             ELSE [st EXCEPT !.in_string = ins]

\* one iteration of the for loop (parser.py 30-45) on character char
ScanStep(st, char) ==
    IF st.escape THEN [st EXCEPT !.escape = FALSE]
    ELSE IF char = "\\" THEN [st EXCEPT !.escape = TRUE]
    ELSE LET ins == IF char = "\"" THEN ~st.in_string ELSE st.in_string
         IN  IF ins THEN [st EXCEPT !.in_string = ins]
             ELSE IF char = "{"
                  THEN [st EXCEPT !.in_string = ins, !.depth = st.depth + 1]
             ELSE IF char = "}"
                  THEN [st EXCEPT !.in_string = ins, !.depth = st.depth - 1,
                                  !.returned = (st.depth - 1 = 0)]
             ELSE [st EXCEPT !.in_string = ins]

\* the scanner's state after the first k characters of s (the loop ends
\* at the return, so no state exists past it)
RECURSIVE ScanState(_, _)
ScanState(s, k) ==
    IF k = 0 THEN ScanInit ELSE ScanStep(ScanState(s, k - 1), s[k])

\* the index i+1 at which the loop returns, 0 when it runs to the end
RECURSIVE FirstObjectEndFrom(_, _, _)
FirstObjectEndFrom(s, k, st) ==
    IF k > Len(s) THEN 0
    ELSE LET nx == ScanStep(st, s[k])
         IN  IF nx.returned THEN k ELSE FirstObjectEndFrom(s, k + 1, nx)

FirstObjectEnd(s) == FirstObjectEndFrom(s, 1, ScanInit)

\* the text handed to json.loads: json_content[:i+1], or all of it
TextToParse(s) ==
    LET cut == FirstObjectEnd(s)
    IN  IF cut > 0 THEN SubSeq(s, 1, cut) ELSE s

\* parse_json_content's try block: ok = FALSE is the JSONDecodeError
parse_json_content(s) == JsonLoads(TextToParse(s))

(***************************************************************************)
(* extract_comments and its helper.                                        *)
(* Field values are taken to have the types Gerrit gives them: file,       *)
(* reviewer name and message are strings, line an integer, unresolved a    *)
(* boolean.                                                                *)
(***************************************************************************)
NoComment == [file |-> <<>>, line |-> 0, reviewer |-> <<>>, message |-> <<>>,
              unresolved |-> FALSE]

\* UnresolvedOf as it would be with the default False
UnresolvedOfDefaultFalse(r) == Get(r, "unresolved", PyBool(FALSE)).v

\* comment_data.get("unresolved", True)
UnresolvedOf(r) == Get(r, "unresolved", PyBool(TRUE)).v

\* _extract_comment: kind "none" is the None result, "raise" an exception
\* that the subscripts r["reviewer"]["name"] and r["message"] raise
_extract_comment(r) ==
    IF ~HasKey(r, "file") \/ ~HasKey(r, "line")
    THEN [kind |-> "none", c |-> NoComment, exc |-> "none"]
    ELSE IF ~HasKey(r, "reviewer")
    THEN [kind |-> "raise", c |-> NoComment, exc |-> "KeyError"]
    ELSE IF ~HasKey(r.v["reviewer"], "name")
    THEN [kind |-> "raise", c |-> NoComment, exc |-> "KeyError"]
    ELSE IF ~HasKey(r, "message")
    THEN [kind |-> "raise", c |-> NoComment, exc |-> "KeyError"]
    ELSE [kind |-> "comment",
          c |-> [file |-> r.v["file"].v,
                 line |-> r.v["line"].v,
                 reviewer |-> r.v["reviewer"].v["name"].v,
                 message |-> r.v["message"].v,
                 unresolved |-> UnresolvedOf(r)],
          exc |-> "none"]

\* data.get("patchSets", [])
PatchSets(d) == Get(d, "patchSets", PyList(<<>>)).v

\* patch_set.get("comments", [])
PatchSetComments(ps) == Get(ps, "comments", PyList(<<>>)).v

\* the walk as it would be if a patch set without `comments` ended it
RECURSIVE FlattenUntilMissing(_, _)
FlattenUntilMissing(pss, k) ==
    IF k > Len(pss) \/ ~HasKey(pss[k], "comments") THEN <<>>
    ELSE PatchSetComments(pss[k]) \o FlattenUntilMissing(pss, k + 1)

RawCommentsUntilMissing(d) == FlattenUntilMissing(PatchSets(d), 1)

\* the walk as it would be if only the last patch set were read
RawCommentsLastPatchSet(d) ==
    IF PatchSets(d) = <<>> THEN <<>>
    ELSE PatchSetComments(PatchSets(d)[Len(PatchSets(d))])

\* the raw_comments comprehension: every record of every patch set, in
\* patch-set order, then in the order within the patch set
RECURSIVE FlattenFrom(_, _)
FlattenFrom(pss, k) ==
    IF k > Len(pss) THEN <<>>
    ELSE PatchSetComments(pss[k]) \o FlattenFrom(pss, k + 1)

RawComments(d) == FlattenFrom(PatchSets(d), 1)

\* code points of the characters of the model's file paths
CodePoint == ("/" :> 47) @@ ("a" :> 97) @@ ("b" :> 98) @@ ("c" :> 99)

\* str.__lt__: lexicographic by code point, a proper prefix is smaller
RECURSIVE StrLt(_, _)
StrLt(a, b) ==
    IF b = <<>> THEN FALSE
    ELSE IF a = <<>> THEN TRUE
    ELSE IF Head(a) # Head(b) THEN CodePoint[Head(a)] < CodePoint[Head(b)]
    ELSE StrLt(Tail(a), Tail(b))

\* KeyLt as it would be with the key (x.line, x.file)
KeyLtLineFirst(x, y) ==
    \/ x.line < y.line
    \/ x.line = y.line /\ StrLt(x.file, y.file)

\* (x.file, x.line) < (y.file, y.line): the sort key's tuple comparison
KeyLt(x, y) ==
    \/ StrLt(x.file, y.file)
    \/ x.file = y.file /\ x.line < y.line

\* InsertPos as an unstable sort would have it: before the equal elements
RECURSIVE InsertPosBeforeEqual(_, _, _)
InsertPosBeforeEqual(x, s, k) ==
    IF k > Len(s) THEN k
    ELSE IF ~KeyLt(s[k], x) THEN k
    ELSE InsertPosBeforeEqual(x, s, k + 1)

\* where sorted() places x in an already sorted list: after every element
\* that is not greater than x
RECURSIVE InsertPos(_, _, _)
InsertPos(x, s, k) ==
    IF k > Len(s) THEN k
    ELSE IF KeyLt(x, s[k]) THEN k
    ELSE InsertPos(x, s, k + 1)

Insert(x, s) ==
    LET k == InsertPos(x, s, 1)
    IN  SubSeq(s, 1, k - 1) \o <<x>> \o SubSeq(s, k, Len(s))

\* sorted(comments, key=lambda x: (x.file, x.line)): a stable sort
RECURSIVE SortFrom(_, _, _)
SortFrom(s, k, acc) ==
    IF k > Len(s) THEN acc ELSE SortFrom(s, k + 1, Insert(s[k], acc))

SortedByFileLine(s) == SortFrom(s, 1, <<>>)

IsUnresolved(c) == c.unresolved

\* FilterComments as it would be if the flag were ignored
FilterCommentsIgnored(cs, only) == cs

\* the `if unresolved_only` filter
FilterComments(cs, only) ==
    IF only THEN SelectSeq(cs, IsUnresolved) ELSE cs

\* extract_comments(data, unresolved_only): raised names the exception
\* that leaves the function, "none" when it returns val
extract_comments(d, only) ==
    IF d.t # "dict"
    THEN [raised |-> "AttributeError", val |-> <<>>]
    ELSE LET raw == RawComments(d)
             ex == [k \in 1..Len(raw) |-> _extract_comment(raw[k])]
             IsSome(e) == e.kind = "comment"
             kept == SelectSeq(ex, IsSome)
             cs == [k \in 1..Len(kept) |-> kept[k].c]
         IN  IF \E k \in 1..Len(raw) : ex[k].kind = "raise"
             THEN [raised |-> "KeyError", val |-> <<>>]
             ELSE [raised |-> "none",
                   val |-> SortedByFileLine(FilterComments(cs, only))]

(***************************************************************************)
(* Output: ReviewOutput (models.py) and display_review (display.py).       *)
(* A line of standard output is a tuple whose head names the line.         *)
(***************************************************************************)
ContextRadius == 2

Unknown == PyStr(<<"U", "n", "k", "n", "o", "w", "n">>)
NoSubject == PyStr(<<"N", "o", " ", "s", "u", "b", "j", "e", "c", "t">>)

\* str.rstrip(): without the trailing whitespace
RECURSIVE RStrip(_)
RStrip(l) ==
    IF l # <<>> /\ l[Len(l)] \in Whitespace
    THEN RStrip(SubSeq(l, 1, Len(l) - 1)) ELSE l

\* os.path.exists(filepath)
Exists(fs, path) == path \in DOMAIN fs /\ fs[path].exists

\* io.read_lines(filepath): the lines, or ok = FALSE for the OSError of a
\* file that is gone or cannot be read
ReadLines(fs, filepath) ==
    IF filepath \in DOMAIN fs /\ fs[filepath].exists /\ fs[filepath].readable
    THEN [ok |-> TRUE, lines |-> fs[filepath].lines]
    ELSE [ok |-> FALSE, lines |-> <<>>]

\* show_code_context as it would be without its try/except
OnReadErrorRaise(filepath) == [out |-> <<>>, err |-> <<>>, raised |-> TRUE]

\* show_code_context's except clause: logger.error(...), and it returns
OnReadError(filepath) ==
    [out |-> <<>>, err |-> << <<"ERROR", "Cannot read", filepath>> >>, raised |-> FALSE]

\* show_code_context(filepath, line_num, context): what it writes to
\* standard output (out), what it logs as an error (err), and whether an
\* exception leaves it (raised)
show_code_context(fs, filepath, line_num, context) ==
    IF ~Exists(fs, filepath) THEN [out |-> <<>>, err |-> <<>>, raised |-> FALSE]
    ELSE LET r == ReadLines(fs, filepath)
         IN  IF ~r.ok THEN OnReadError(filepath)
             ELSE LET lines == r.lines
                      start == Max(0, line_num - context - 1)
                      end == Min(Len(lines), line_num + context)
                  IN  [out |-> << <<"">> >> \o
                               [j \in 1..(end - start) |->
                                   <<"context", start + j,
                                     IF start + j - 1 = line_num - 1 THEN ">>>" ELSE "   ",
                                     RStrip(lines[start + j])>>],
                       err |-> <<>>, raised |-> FALSE]

\* ReviewOutput.from_gerrit_data(data, comments).to_dict()
CommentToDict(c) ==
    PyDict([file |-> PyStr(c.file), line |-> PyInt(c.line),
            reviewer |-> PyStr(c.reviewer), message |-> PyStr(c.message),
            unresolved |-> PyBool(c.unresolved)])

ReviewOutputToDict(d, cs) ==
    PyDict([project |-> Get(d, "project", Unknown),
            change_number |-> Get(d, "number", Unknown),
            subject |-> Get(d, "subject", NoSubject),
            comments |-> PyList([k \in 1..Len(cs) |-> CommentToDict(cs[k])])])

\* comment.file.startswith("/") as it would be if no path were absolute
IsAbsoluteNever(path) == FALSE

\* comment.file.startswith("/")
IsAbsolute(path) == path # <<>> /\ Head(path) = "/"

\* the body of display_review's nested loops over the sorted comments:
\* groupby opens a group where the file differs from the one before
RECURSIVE DisplayFrom(_, _, _)
DisplayFrom(sorted, k, fs) ==
    IF k > Len(sorted) THEN [out |-> <<>>, err |-> <<>>, raised |-> FALSE]
    ELSE LET c == sorted[k]
             header == IF k = 1 \/ sorted[k - 1].file # c.file
                       THEN << <<"file", c.file>>, <<"rule", 40>> >>
                       ELSE <<>>
             printed == header
                        \o << <<"comment", c.line, c.reviewer,
                                IF c.unresolved THEN " [UNRESOLVED]" ELSE "">>,
                              <<"message", c.message>> >>
             ctx == IF IsAbsolute(c.file)
                    THEN [out |-> <<>>, err |-> <<>>, raised |-> FALSE]
                    ELSE show_code_context(fs, c.file, c.line, ContextRadius)
         IN  IF ctx.raised
             THEN [out |-> printed \o ctx.out, err |-> ctx.err, raised |-> TRUE]
             ELSE LET rest == DisplayFrom(sorted, k + 1, fs)
                  IN  [out |-> printed \o ctx.out \o rest.out,
                       err |-> ctx.err \o rest.err,
                       raised |-> rest.raised]

\* display_review's sort as it would be if it kept the order given
KeepOrder(s) == s

\* display_review: sorted(comments, key=lambda c: (c.file, c.line))
SortedForDisplay(s) == SortedByFileLine(s)

\* display.display_review(data, comments, unresolved_only)
display_review(d, cs, only, fs) ==
    IF cs = <<>>
    THEN [out |-> << <<"No file comments found in review">> >>, err |-> <<>>,
          raised |-> FALSE]
    ELSE LET body == DisplayFrom(SortedForDisplay(cs), 1, fs)
         IN  [out |-> << <<"rule", 70>>,
                         <<"Review #", Get(d, "number", Unknown)>>,
                         <<"subject", Get(d, "subject", NoSubject)>>,
                         <<"Project: ", Get(d, "project", Unknown)>>,
                         <<IF only THEN "Unresolved Comments: " ELSE "Comments: ",
                           Len(cs)>>,
                         <<"rule", 70>> >> \o body.out,
              err |-> body.err,
              raised |-> body.raised]

\* parser.display_review(data, comments, unresolved_only): the same lines
\* as display.display_review, but groupby runs over the comments in the
\* order given (parser.py 152); parser._show_code_context (187-215)
\* prints what display.show_code_context prints
parser_display_review(d, cs, only, fs) ==
    IF cs = <<>>
    THEN [out |-> << <<"No file comments found in review">> >>, err |-> <<>>,
          raised |-> FALSE]
    ELSE LET body == DisplayFrom(cs, 1, fs)
         IN  [out |-> << <<"rule", 70>>,
                         <<"Review #", Get(d, "number", Unknown)>>,
                         <<"subject", Get(d, "subject", NoSubject)>>,
                         <<"Project: ", Get(d, "project", Unknown)>>,
                         <<IF only THEN "Unresolved Comments: " ELSE "Comments: ",
                           Len(cs)>>,
                         <<"rule", 70>> >> \o body.out,
              err |-> body.err,
              raised |-> body.raised]

(***************************************************************************)
(* json.dumps(result, indent=2): the pure-Python encoder, with the default *)
(* separators of an indented dump ("," and ": ") and ensure_ascii.         *)
(***************************************************************************)
IndentWidth == 2

\* the fields of ReviewOutput and of Comment, in the order asdict gives,
\* and the keys of the dry-run object in the order of its literal
FieldOrder ==
    <<"project", "change_number", "subject", "comments",
      "file", "line", "reviewer", "message", "unresolved",
      "dry_run", "command">>

\* the characters of a field name
FieldText ==
    ("project" :> <<"p", "r", "o", "j", "e", "c", "t">>) @@
    ("change_number" :> <<"c", "h", "a", "n", "g", "e", "_", "n", "u", "m", "b", "e", "r">>) @@
    ("subject" :> <<"s", "u", "b", "j", "e", "c", "t">>) @@
    ("comments" :> <<"c", "o", "m", "m", "e", "n", "t", "s">>) @@
    ("file" :> <<"f", "i", "l", "e">>) @@
    ("line" :> <<"l", "i", "n", "e">>) @@
    ("reviewer" :> <<"r", "e", "v", "i", "e", "w", "e", "r">>) @@
    ("message" :> <<"m", "e", "s", "s", "a", "g", "e">>) @@
    ("unresolved" :> <<"u", "n", "r", "e", "s", "o", "l", "v", "e", "d">>) @@
    ("dry_run" :> <<"d", "r", "y", "_", "r", "u", "n">>) @@
    ("command" :> <<"c", "o", "m", "m", "a", "n", "d">>)

\* the escaping of a character as it would be without ESCAPE_DCT
EscapeCharVerbatim(c) == <<c>>

\* encode_basestring_ascii: ESCAPE_DCT on the characters of the model
EscapeChar(c) ==
    IF c = "\"" THEN <<"\\", "\"">>
    ELSE IF c = "\\" THEN <<"\\", "\\">>
    ELSE IF c = "\n" THEN <<"\\", "n">>
    ELSE <<c>>

EncodeString(s) ==
    <<"\"">> \o Concat([i \in DOMAIN s |-> EscapeChar(s[i])]) \o <<"\"">>

\* newline_indent at a nesting level
NewlineIndent(level) == <<"\n">> \o [i \in 1..(IndentWidth * level) |-> " "]

\* the chunks of a container joined by the item separator and the
\* newline_indent of its level
RECURSIVE JoinItems(_, _)
JoinItems(items, level) ==
    IF Len(items) = 1 THEN Head(items)
    ELSE Head(items) \o <<",">> \o NewlineIndent(level) \o JoinItems(Tail(items), level)

\* _iterencode(o, _current_indent_level), for dicts whose keys are fields
RECURSIVE IterEncode(_, _)
IterEncode(o, level) ==
    IF o.t = "str" THEN EncodeString(o.v)
    ELSE IF o.t = "int" THEN IntChars(o.v)
    ELSE IF o.t = "bool"
    THEN (IF o.v THEN <<"t", "r", "u", "e">> ELSE <<"f", "a", "l", "s", "e">>)
    ELSE IF o.t = "none" THEN <<"n", "u", "l", "l">>
    ELSE IF o.t = "list"
    THEN IF o.v = <<>> THEN <<"[", "]">>
         ELSE <<"[">> \o NewlineIndent(level + 1)
              \o JoinItems([i \in DOMAIN o.v |-> IterEncode(o.v[i], level + 1)], level + 1)
              \o NewlineIndent(level) \o <<"]">>
    ELSE LET InDict(k) == k \in DOMAIN o.v
             ks == SelectSeq(FieldOrder, InDict)
         IN  IF ks = <<>> THEN <<"{", "}">>
             ELSE <<"{">> \o NewlineIndent(level + 1)
                  \o JoinItems([i \in DOMAIN ks |->
                                   EncodeString(FieldText[ks[i]]) \o <<":", " ">>
                                   \o IterEncode(o.v[ks[i]], level + 1)], level + 1)
                  \o NewlineIndent(level) \o <<"}">>

JsonDumps(o) == IterEncode(o, 0)

\* _output_result(data, comments, json_output, unresolved_only)
_output_result(d, cs, as_json, only, fs) ==
    IF as_json
    THEN [out |-> << <<"json", JsonDumps(ReviewOutputToDict(d, cs))>> >>, err |-> <<>>,
          raised |-> FALSE]
    ELSE display_review(d, cs, only, fs)

(***************************************************************************)
(* The inputs of the model.                                                *)
(***************************************************************************)
SeqsUpTo(S, n) == UNION {[1..k -> S] : k \in 0..n}

\* the pieces of a JSON string's body that matter to the scan: a letter,
\* the braces, an escaped quote, an escaped backslash
Pieces == {<<"n">>, <<"{">>, <<"}">>, <<"\\", "\"">>, <<"\\", "\\">>}
KeyN == <<"\"", "n", "\"">>
KeyNN == <<"\"", "n", "n", "\"">>

\* JSON strings of at most n pieces
StringTexts(n) == {<<"\"">> \o Concat(ps) \o <<"\"">> : ps \in SeqsUpTo(Pieces, n)}

\* well-formed JSON objects, their strings of at most n pieces
Objects(n) ==
    LET strs == StringTexts(n)
    IN  {<<"{", "}">>, <<"{", " ">> \o KeyN \o <<" ", ":", "\n", "1", " ", "}">>,
         <<"{">> \o KeyN \o <<":", "{", "}", "}">>}
        \cup {<<"{">> \o k \o <<":", "1", "}">> : k \in strs}
        \cup {<<"{">> \o KeyN \o <<":">> \o x \o <<"}">> : x \in strs}
        \cup {<<"{">> \o KeyN \o <<":", "{">> \o KeyN \o <<":">> \o x \o <<"}", "}">> :
                x \in strs}
        \cup {<<"{">> \o KeyN \o <<":">> \o x \o <<",">> \o KeyNN \o <<":", "1", "1", "}">> :
                x \in strs}

\* balanced braces around what is no JSON object
MalformedObjects ==
    {<<"{", "1", "}">>, <<"{">> \o KeyN \o <<"}">>, <<"{">> \o KeyN \o <<":", "}">>,
     <<"{">> \o KeyN \o <<":", "1", ",", "}">>, <<"{", "\"", "\\", "1", "\"", ":", "1", "}">>}

\* what Gerrit may append: a second object, with or without a separator
SecondObjects ==
    {<<"{", "}">>, <<"{">> \o KeyN \o <<":", "1", "}">>,
     <<"{", "\"", "}", "\"", ":", "\"", "{", "\"", "}">>}
Separators == {<<>>, <<" ">>, <<"\n">>}

\* trailing texts: every text of at most n characters, and the second objects
Trails(n) ==
    SeqsUpTo(Chars, n) \cup {sep \o o : sep \in Separators, o \in SecondObjects}

\* the raw texts: every text of at most raw characters, and every object
\* followed by a trailing text
Inputs(raw, body, trail) ==
    SeqsUpTo(Chars, raw)
    \cup {o \o t : o \in Objects(body) \cup MalformedObjects, t \in Trails(trail)}

\* the local checkout
\* a file of the checkout: is it there, does reading it succeed, its lines
File(exists, readable, lines) ==
    [exists |-> exists, readable |-> readable, lines |-> lines]

\* the local checkout: a file that cannot be read (or is gone once it is
\* opened), a file to show, and one outside the tree; "c" is not there
LocalFiles ==
    (<<"a">> :> File(TRUE, FALSE, <<>>))
    @@ (<<"b">> :> File(TRUE, TRUE, << <<"x", "\n">>, <<"y", " ", "\n">>, <<"z">> >>))
    @@ (<<"/", "b">> :> File(TRUE, TRUE, << <<"w", "\n">> >>))

\* a file of n lines, line i holding the digits of i and a newline
NumberedLines(n) == [i \in 1..n |-> IntChars(i) \o <<"\n">>]

\* Comment(file, line, reviewer, message, unresolved)
Comment(file, line, reviewer, message, unresolved) ==
    [file |-> file, line |-> line, reviewer |-> reviewer, message |-> message,
     unresolved |-> unresolved]

\* comments handed to the output: on a file that is there, on one outside
\* the tree, on one that cannot be read and on one that is not there; one
\* message holds the characters json.dumps escapes
CommentPool ==
    {Comment(<<"b">>, 2, <<"R">>, <<"x">>, TRUE),
     Comment(<<"b">>, 1, <<"S">>, <<"\"", "\\", "\n", "}">>, FALSE),
     Comment(<<"/", "b">>, 1, <<"R">>, <<"x">>, TRUE),
     Comment(<<"a">>, 1, <<"R">>, <<"x">>, TRUE),
     Comment(<<"c">>, 1, <<"R">>, <<"x">>, TRUE)}

\* comment records as Gerrit's JSON holds them
Rec(file, line, reviewer, message, unresolved) ==
    PyDict([file |-> PyStr(file), line |-> PyInt(line),
            reviewer |-> PyDict([name |-> PyStr(reviewer)]),
            message |-> PyStr(message), unresolved |-> PyBool(unresolved)])
Without(r, key) == PyDict([k \in (DOMAIN r.v) \ {key} |-> r.v[k]])

BaseRecord == Rec(<<"a">>, 1, <<"R">>, <<"x">>, TRUE)
ValidRecords ==
    {Rec(<<"a", "b">>, 1, <<"R">>, <<"x">>, TRUE),
     Rec(<<"a">>, 2, <<"R">>, <<"y">>, FALSE),
     Without(Rec(<<"a">>, 2, <<"S">>, <<"x">>, FALSE), "unresolved"),
     Rec(<<"a">>, 1, <<"S">>, <<"y">>, TRUE)}
MalformedRecords ==
    {Without(BaseRecord, k) : k \in {"file", "line", "reviewer", "message"}}
    \cup {PyDict([BaseRecord.v EXCEPT !["reviewer"] = PyDict(EmptyMap)])}
RecordPool == ValidRecords \cup MalformedRecords

PatchSet(cs) == PyDict([number |-> PyInt(1), comments |-> PyList(cs)])
NoCommentsPatchSet == PyDict([number |-> PyInt(1)])

\* the number of records in patch sets of the given sizes, where the size
\* -1 stands for a patch set without a `comments` key
RECURSIVE Records(_)
Records(sizes) ==
    IF sizes = <<>> THEN 0 ELSE Max(Head(sizes), 0) + Records(Tail(sizes))

\* the patch sets of the given sizes that hold the records recs, in order
RECURSIVE BuildPatchSets(_, _)
BuildPatchSets(sizes, recs) ==
    IF sizes = <<>> THEN <<>>
    ELSE LET n == Head(sizes)
         IN  IF n < 0
             THEN <<NoCommentsPatchSet>> \o BuildPatchSets(Tail(sizes), recs)
             ELSE <<PatchSet(SubSeq(recs, 1, n))>>
                  \o BuildPatchSets(Tail(sizes), SubSeq(recs, n + 1, Len(recs)))

Malformed(recs) == Cardinality({i \in DOMAIN recs : recs[i] \in MalformedRecords})

Meta == [project |-> PyStr(<<"p">>), number |-> PyInt(7), subject |-> PyStr(<<"s">>)]

\* d is a parsed review: without patchSets, without anything else, or with
\* at most k patch sets that hold at most n records, at most m malformed
IsReview(d, k, n, m) ==
    \/ d = PyDict(Meta)
    \/ d = PyDict([patchSets |-> PyList(<<>>)])
    \/ \E len \in 0..k :
         \E sizes \in {x \in [1..len -> -1..n] : Records(x) <= n} :
           \E recs \in {x \in [1..Records(sizes) -> RecordPool] : Malformed(x) <= m} :
             d = PyDict([patchSets |-> PyList(BuildPatchSets(sizes, recs))] @@ Meta)

\* stands for a raw text that the model does not spell out
Elided == <<"...">>

(***************************************************************************)
(* Configuration: config.py (environment, then config.toml) and            *)
(* gerrit.load_gerrit_config (environment, then ~/.env.gerrit).            *)
(* A configuration value is PyStr(text), or PyNone where Python has None.  *)
(***************************************************************************)
EnvNames == {"GERRIT_HOST", "GERRIT_PORT", "GERRIT_USER"}

\* d.get(name) on a dict of texts
EnvGet(env, name) == IF name \in DOMAIN env THEN PyStr(env[name]) ELSE PyNone

\* bool(v) of a str or None
Truthy(v) == v.t = "str" /\ v.v # <<>>

\* GerritConfig(host, port, user)
GerritConfig(host, port, user) == [host |-> host, port |-> port, user |-> user]
NoConfig == GerritConfig(PyNone, PyNone, PyNone)

\* str(data["port"]) of a TOML string or integer
Str(v) == IF v.t = "int" THEN PyStr(IntChars(v.v)) ELSE v

\* config.load_config_file: None (ok = FALSE) unless the file exists, can
\* be read, is TOML and has the three keys
load_config_file(h) ==
    LET f == h.config
    IN  IF ~f.exists THEN [ok |-> FALSE, cfg |-> NoConfig]
        ELSE IF ~f.readable \/ ~f.toml THEN [ok |-> FALSE, cfg |-> NoConfig]
        ELSE IF ~({"host", "port", "user"} \subseteq DOMAIN f.data.v)
        THEN [ok |-> FALSE, cfg |-> NoConfig]
        ELSE [ok |-> TRUE,
              cfg |-> GerritConfig(f.data.v["host"], Str(f.data.v["port"]),
                                   f.data.v["user"])]

\* load_env_config as it would be if it did not ask for the port
load_env_configNoPort(env) ==
    IF Truthy(EnvGet(env, "GERRIT_HOST")) /\ Truthy(EnvGet(env, "GERRIT_USER"))
    THEN [ok |-> TRUE,
          cfg |-> GerritConfig(EnvGet(env, "GERRIT_HOST"), EnvGet(env, "GERRIT_PORT"),
                               EnvGet(env, "GERRIT_USER"))]
    ELSE [ok |-> FALSE, cfg |-> NoConfig]

\* config.load_env_config: None unless the three variables are non-empty
load_env_config(env) ==
    LET host == EnvGet(env, "GERRIT_HOST")
        port == EnvGet(env, "GERRIT_PORT")
        user == EnvGet(env, "GERRIT_USER")
    IN  IF Truthy(host) /\ Truthy(port) /\ Truthy(user)
        THEN [ok |-> TRUE, cfg |-> GerritConfig(host, port, user)]
        ELSE [ok |-> FALSE, cfg |-> NoConfig]

\* the sentences of the ConfigError messages
NoConfigurationFound ==
    <<"No configuration found.",
      "Please run 'gerrit-review-parser setup'",
      "or set environment variables GERRIT_HOST, GERRIT_PORT, GERRIT_USER.">>
ExpectedConfigFile == <<"Expected config file: ~/.config/gerrit-review-parser/config.toml">>

\* what a configuration function returns, or the exception that leaves it
Returns(cfg, sources) ==
    [raised |-> "none", msg |-> <<>>, cfg |-> cfg, sources |-> sources]
Raises(exc, msg) ==
    [raised |-> exc, msg |-> msg, cfg |-> NoConfig, sources |-> <<>>]

\* load_config as it would be if the file came before the environment
load_configFileFirst(env, h) ==
    IF load_config_file(h).ok THEN Returns(load_config_file(h).cfg, <<>>)
    ELSE IF load_env_config(env).ok THEN Returns(load_env_config(env).cfg, <<>>)
    ELSE Raises("ConfigError", NoConfigurationFound \o ExpectedConfigFile)

\* config.load_config
load_config(env, h) ==
    IF load_env_config(env).ok THEN Returns(load_env_config(env).cfg, <<>>)
    ELSE IF load_config_file(h).ok THEN Returns(load_config_file(h).cfg, <<>>)
    ELSE Raises("ConfigError", NoConfigurationFound \o ExpectedConfigFile)

\* get_config_with_sources as it would be if it took the whole
\* configuration from one source, as load_config does
get_config_with_sourcesWhole(env, h) ==
    IF load_env_config(env).ok
    THEN Returns(load_env_config(env).cfg,
                 [host |-> "env", port |-> "env", user |-> "env"])
    ELSE IF load_config_file(h).ok
    THEN Returns(load_config_file(h).cfg,
                 [host |-> "file", port |-> "file", user |-> "file"])
    ELSE Raises("ConfigError", NoConfigurationFound)

\* config.get_config_with_sources
get_config_with_sources(env, h) ==
    LET env_config == load_env_config(env)
        file_config == load_config_file(h)
        host == EnvGet(env, "GERRIT_HOST")
        port == EnvGet(env, "GERRIT_PORT")
        user == EnvGet(env, "GERRIT_USER")
    IN  IF ~env_config.ok /\ ~file_config.ok
        THEN Raises("ConfigError", NoConfigurationFound)
        ELSE IF ~Truthy(host) /\ ~file_config.ok
        THEN Raises("ConfigError", <<"GERRIT_HOST not configured">>)
        ELSE IF ~Truthy(port) /\ ~file_config.ok
        THEN Raises("ConfigError", <<"GERRIT_PORT not configured">>)
        ELSE IF ~Truthy(user) /\ ~file_config.ok
        THEN Raises("ConfigError", <<"GERRIT_USER not configured">>)
        ELSE Returns(
                GerritConfig(IF Truthy(host) THEN host ELSE file_config.cfg.host,
                             IF Truthy(port) THEN port ELSE file_config.cfg.port,
                             IF Truthy(user) THEN user ELSE file_config.cfg.user),
                [host |-> IF Truthy(host) THEN "env" ELSE "file",
                 port |-> IF Truthy(port) THEN "env" ELSE "file",
                 user |-> IF Truthy(user) THEN "env" ELSE "file"])

\* config.toml: is it there, can it be read, is it TOML, and what
\* tomllib.load gives for it
ConfigFile(exists, readable, toml, d) ==
    [exists |-> exists, readable |-> readable, toml |-> toml, data |-> d]
NoConfigFile == ConfigFile(FALSE, FALSE, FALSE, PyDict(EmptyMap))

\* ~/.env.gerrit: is it there, can it be read, its lines
NoEnvFile == File(FALSE, FALSE, <<>>)

\* the table of a complete config.toml, its port an integer or a string
FileTable(port) == [host |-> PyStr(<<"f">>), port |-> port, user |-> PyStr(<<"g">>)]

\* the states of config.toml: absent, unreadable, not TOML, complete (with
\* either kind of port), or with one key missing
ConfigFiles ==
    {NoConfigFile,
     ConfigFile(TRUE, FALSE, FALSE, PyDict(EmptyMap)),
     ConfigFile(TRUE, TRUE, FALSE, PyDict(EmptyMap)),
     ConfigFile(TRUE, TRUE, TRUE, PyDict(FileTable(PyInt(2)))),
     ConfigFile(TRUE, TRUE, TRUE, PyDict(FileTable(PyStr(<<"2">>))))}
    \cup {ConfigFile(TRUE, TRUE, TRUE, Without(PyDict(FileTable(PyInt(2))), k)) :
             k \in {"host", "port", "user"}}

\* str.strip(): without the leading and trailing whitespace
RECURSIVE LStrip(_)
LStrip(l) == IF l # <<>> /\ Head(l) \in Whitespace THEN LStrip(Tail(l)) ELSE l
Strip(l) == LStrip(RStrip(l))

\* str.strip('"'): without the leading and trailing double quotes
RECURSIVE StripQuotes(_)
StripQuotes(l) ==
    IF l # <<>> /\ Head(l) = "\"" THEN StripQuotes(Tail(l))
    ELSE IF l # <<>> /\ l[Len(l)] = "\"" THEN StripQuotes(SubSeq(l, 1, Len(l) - 1))
    ELSE l

\* the position of the first "=" of a text, 0 when it has none
RECURSIVE FindEquals(_, _)
FindEquals(l, p) ==
    IF p > Len(l) THEN 0 ELSE IF l[p] = "=" THEN p ELSE FindEquals(l, p + 1)

ExportPrefix == <<"e", "x", "p", "o", "r", "t", " ">>

\* the loop of gerrit._parse_env_file over the lines of the file: the
\* pairs of the `export KEY=value` lines; ok = FALSE stands for the
\* ValueError of an export line without "="
RECURSIVE ParseEnvLines(_, _)
ParseEnvLines(lines, acc) ==
    IF lines = <<>> THEN [ok |-> TRUE, env |-> acc]
    ELSE LET line == Head(lines)
         IN  IF Len(line) >= Len(ExportPrefix)
                /\ SubSeq(line, 1, Len(ExportPrefix)) = ExportPrefix
             THEN LET rest == Strip(SubSeq(line, Len(ExportPrefix) + 1, Len(line)))
                      eq == FindEquals(rest, 1)
                  IN  IF eq = 0 THEN [ok |-> FALSE, env |-> acc]
                      ELSE ParseEnvLines(Tail(lines),
                               [k \in (DOMAIN acc) \cup {Join(SubSeq(rest, 1, eq - 1))} |->
                                   IF k = Join(SubSeq(rest, 1, eq - 1))
                                   THEN StripQuotes(SubSeq(rest, eq + 1, Len(rest)))
                                   ELSE acc[k]])
             ELSE ParseEnvLines(Tail(lines), acc)

\* gerrit._parse_env_file(filepath); ok = FALSE also for the OSError of a
\* file that cannot be opened
_parse_env_file(f) ==
    IF ~f.readable THEN [ok |-> FALSE, env |-> <<>>]
    ELSE ParseEnvLines(f.lines, <<>>)

\* the default of env.get("GERRIT_PORT", "29418")
DefaultPort == <<"2", "9", "4", "1", "8">>

\* gerrit.die(msg): print to stderr, sys.exit(1)
die(msg) == Raises("SystemExit", <<"FATAL", msg>>)

\* load_gerrit_config as it would be if it took the port of ~/.env.gerrit
\* whenever that file gives one
load_gerrit_configFilePort(env, h) ==
    LET file_env == IF h.env_file.exists THEN _parse_env_file(h.env_file)
                    ELSE [ok |-> FALSE, env |-> <<>>]
    IN  IF ~Truthy(EnvGet(env, "GERRIT_HOST")) \/ ~Truthy(EnvGet(env, "GERRIT_USER"))
        THEN die("Gerrit configuration incomplete")
        ELSE Returns(GerritConfig(
                        EnvGet(env, "GERRIT_HOST"),
                        IF file_env.ok /\ "GERRIT_PORT" \in DOMAIN file_env.env
                        THEN PyStr(file_env.env["GERRIT_PORT"])
                        ELSE IF "GERRIT_PORT" \in DOMAIN env THEN PyStr(env["GERRIT_PORT"])
                        ELSE PyStr(DefaultPort),
                        EnvGet(env, "GERRIT_USER")), <<>>)

\* gerrit.load_gerrit_config(env=None, env_file=None): env is a copy of
\* os.environ, the file is ~/.env.gerrit
load_gerrit_config(env, h) ==
    LET gerrit_host == EnvGet(env, "GERRIT_HOST")
        gerrit_port == IF "GERRIT_PORT" \in DOMAIN env THEN PyStr(env["GERRIT_PORT"])
                       ELSE PyStr(DefaultPort)
        gerrit_user == EnvGet(env, "GERRIT_USER")
    IN  IF Truthy(gerrit_host) /\ Truthy(gerrit_user)
        THEN Returns(GerritConfig(gerrit_host, gerrit_port, gerrit_user), <<>>)
        ELSE IF ~h.env_file.exists
        THEN die("Gerrit not configured. Run: utils setup gerrit")
        ELSE LET file_env == _parse_env_file(h.env_file)
             IN  IF ~file_env.ok THEN die("Failed to load Gerrit config")
                 ELSE LET host == IF Truthy(gerrit_host) THEN gerrit_host
                                  ELSE EnvGet(file_env.env, "GERRIT_HOST")
                          user == IF Truthy(gerrit_user) THEN gerrit_user
                                  ELSE EnvGet(file_env.env, "GERRIT_USER")
                          port == IF "GERRIT_PORT" \in DOMAIN file_env.env
                                  THEN PyStr(file_env.env["GERRIT_PORT"])
                                  ELSE gerrit_port
                      IN  IF ~Truthy(host) \/ ~Truthy(user)
                          THEN die("Gerrit configuration incomplete")
                          ELSE Returns(GerritConfig(host, port, user), <<>>)

\* the lines ~/.env.gerrit may hold: the three exports (the port quoted), a
\* comment, and an export without "="
HostLine == <<"e", "x", "p", "o", "r", "t", " ", "G", "E", "R", "R", "I", "T", "_", "H", "O", "S", "T", "=", "f", "\n">>
PortLine == <<"e", "x", "p", "o", "r", "t", " ", "G", "E", "R", "R", "I", "T", "_", "P", "O", "R", "T", "=", "\"", "2", "\"", "\n">>
UserLine == <<"e", "x", "p", "o", "r", "t", " ", "G", "E", "R", "R", "I", "T", "_", "U", "S", "E", "R", "=", "g", "\n">>
CommentLine == <<"#", " ", "c", "\n">>
BadLine == <<"e", "x", "p", "o", "r", "t", " ", "X", "\n">>
EnvLines == <<HostLine, PortLine, UserLine, CommentLine, BadLine>>

\* the states of ~/.env.gerrit: absent, unreadable, or any selection of
\* the lines, in their order
EnvFiles ==
    {NoEnvFile, File(TRUE, FALSE, <<>>)}
    \cup {LET Chosen(l) == \E i \in S : EnvLines[i] = l
          IN  File(TRUE, TRUE, SelectSeq(EnvLines, Chosen)) :
             S \in SUBSET (1..Len(EnvLines))}

\* the environments: each of the three variables unset, empty or set
EnvValue == [GERRIT_HOST |-> <<"h">>, GERRIT_PORT |-> <<"1">>, GERRIT_USER |-> <<"u">>]
Environs ==
    UNION {{[n \in S |-> IF n \in E THEN <<>> ELSE EnvValue[n]] : E \in SUBSET S} :
              S \in SUBSET EnvNames}

(***************************************************************************)
(* The front of cli.parse: the dry run, and _load_json_content with the    *)
(* fetch over ssh and the optional save.  --debug is off.                  *)
(***************************************************************************)
\* str.startswith(prefix)
StartsWith(s, prefix) ==
    Len(s) >= Len(prefix) /\ SubSeq(s, 1, Len(prefix)) = prefix

\* str.removeprefix(prefix)
RemovePrefix(s, prefix) ==
    IF StartsWith(s, prefix) THEN SubSeq(s, Len(prefix) + 1, Len(s)) ELSE s

\* sep.join(items)
RECURSIVE JoinWith(_, _)
JoinWith(sep, items) ==
    IF items = <<>> THEN <<>>
    ELSE IF Len(items) = 1 THEN Head(items)
    ELSE Head(items) \o sep \o JoinWith(sep, Tail(items))

ChangePrefix == <<"c", "h", "a", "n", "g", "e", ":">>

\* _normalize_changeid as it would be if it returned the id as given
_normalize_changeidAsGiven(changeid) == changeid

\* cli._normalize_changeid(changeid)
_normalize_changeid(changeid) ==
    IF ~StartsWith(changeid, ChangePrefix) THEN ChangePrefix \o changeid ELSE changeid

\* commands.build_ssh_base(config)
build_ssh_base(config) ==
    <<<<"s", "s", "h">>, <<"-", "p">>, config.port.v, config.user.v \o <<"@">> \o config.host.v,
      <<"g", "e", "r", "r", "i", "t">>>>

\* build_query_command as it would be with include_comments=False
build_query_commandNoComments(config, query_str) ==
    build_ssh_base(config)
    \o <<<<"q", "u", "e", "r", "y">>, <<"-", "-", "f", "o", "r", "m", "a", "t", "=">> \o <<"J", "S", "O", "N">>>>
    \o <<<<"-", "-", "p", "a", "t", "c", "h", "-", "s", "e", "t", "s">>>> \o <<<<"-", "-", "f", "i", "l", "e", "s">>>>
    \o <<query_str>>

\* commands.build_query_command(config, query_str), with its defaults
build_query_command(config, query_str) ==
    build_ssh_base(config)
    \o <<<<"q", "u", "e", "r", "y">>, <<"-", "-", "f", "o", "r", "m", "a", "t", "=">> \o <<"J", "S", "O", "N">>>>
    \o <<<<"-", "-", "p", "a", "t", "c", "h", "-", "s", "e", "t", "s">>>> \o <<<<"-", "-", "f", "i", "l", "e", "s">>>> \o <<<<"-", "-", "c", "o", "m", "m", "e", "n", "t", "s">>>>
    \o <<query_str>>

\* gerrit.build_ssh_command(config, query_str)
build_ssh_command(config, query_str) ==
    <<<<"s", "s", "h">>, <<"-", "p">>, config.port.v, config.user.v \o <<"@">> \o config.host.v,
      <<"g", "e", "r", "r", "i", "t">>, <<"q", "u", "e", "r", "y">>, <<"-", "-", "f", "o", "r", "m", "a", "t", "=", "J", "S", "O", "N">>, <<"-", "-", "p", "a", "t", "c", "h", "-", "s", "e", "t", "s">>, <<"-", "-", "f", "i", "l", "e", "s">>, <<"-", "-", "c", "o", "m", "m", "e", "n", "t", "s">>,
      query_str>>

\* what a step of the front of `parse` did: the text it got, the lines it
\* printed, the diagnostics, the commands it ran, the files it wrote, and
\* the exception that left it
Did(text, out, err, cmds, wrote, raised) ==
    [text |-> text, out |-> out, err |-> err, ran |-> cmds, written |-> wrote,
     raised |-> raised]

DryRunPrefix == <<"[", "D", "R", "Y", "-", "R", "U", "N", "]", " ", "W", "o", "u", "l", "d", " ", "e", "x", "e", "c", "u", "t", "e", ":", " ">>

\* cli._handle_dry_run 183-189, config being what load_gerrit_config()
\* returned or raised
ShowCommand(config, query_str, as_json) ==
    IF config.raised # "none"
    THEN Did(<<>>, <<>>, <<config.msg>>, <<>>, <<>>, config.raised)
    ELSE IF as_json
    THEN Did(<<>>,
             << <<"json",
                  JsonDumps(PyDict(
                      ("dry_run" :> PyBool(TRUE))
                      @@ ("command" :>
                            PyStr(JoinWith(<<" ">>,
                                           build_query_command(config.cfg, query_str))))))>> >>,
             <<>>, <<>>, <<>>, "none")
    ELSE Did(<<>>,
             << <<"text",
                  DryRunPrefix
                  \o JoinWith(<<" ">>, build_query_command(config.cfg, query_str))>> >>,
             <<>>, <<>>, <<>>, "none")

\* cli._handle_dry_run(changeid, query, json_output)
_handle_dry_run(changeid, query, as_json, env, h) ==
    ShowCommand(load_gerrit_config(env, h),
                IF Truthy(changeid) THEN _normalize_changeid(changeid.v) ELSE query.v,
                as_json)

\* fetch_from_gerrit as it would be if the exit status were not checked
fetch_from_gerritUnchecked(query_str, config, rem) ==
    IF config.raised # "none"
    THEN Did(<<>>, <<>>, <<config.msg>>, <<>>, <<>>, config.raised)
    ELSE Did(rem.stdout, <<>>, <<>>, <<build_ssh_command(config.cfg, query_str)>>, <<>>,
             "none")

\* gerrit.fetch_from_gerrit(query_str, config=None), config being what
\* load_gerrit_config() returned or raised: subprocess.run(cmd, check=True),
\* where rem says whether ssh can be started and what it returns
fetch_from_gerrit(query_str, config, rem) ==
    IF config.raised # "none"
    THEN Did(<<>>, <<>>, <<config.msg>>, <<>>, <<>>, config.raised)
    ELSE IF ~rem.started
    THEN Did(<<>>, <<>>, <<die("Failed to run Gerrit query").msg>>, <<>>, <<>>,
             "SystemExit")
    ELSE IF rem.returncode # 0
    THEN Did(<<>>, <<>>, <<die("Gerrit query failed").msg>>,
             <<build_ssh_command(config.cfg, query_str)>>, <<>>, "SystemExit")
    ELSE Did(rem.stdout, <<>>, <<>>, <<build_ssh_command(config.cfg, query_str)>>, <<>>,
             "none")

\* io.read_file(filepath): the text, or ok = FALSE for the OSError
read_file(fs, filepath) ==
    [ok |-> ReadLines(fs, filepath).ok, text |-> Concat(ReadLines(fs, filepath).lines)]

\* write_file as it would be if it stripped the text
write_fileStripped(filepath, content) ==
    [name |-> filepath, content |-> Strip(content)]

\* io.write_file(filepath, content): the file it leaves
write_file(filepath, content) ==
    [name |-> filepath, content |-> content]

\* cli._fetch_and_save 208-212: the name of the file; now is
\* datetime.now().strftime('%Y%m%d_%H%M%S')
Filename(output, filename_prefix, now) ==
    IF Truthy(output) THEN output.v
    ELSE IF StartsWith(filename_prefix, ChangePrefix)
    THEN <<"r", "e", "v", "i", "e", "w", "-">> \o RemovePrefix(filename_prefix, ChangePrefix) \o <<".", "j", "s", "o", "n">>
    ELSE <<"q", "u", "e", "r", "y", "-">> \o now \o <<".", "j", "s", "o", "n">>

\* cli._fetch_and_save 205-218, fetched being what fetch_from_gerrit did
SaveFetched(fetched, save, filename) ==
    IF fetched.raised # "none" \/ ~save THEN fetched
    ELSE Did(fetched.text, <<>>, << <<"INFO", "Saved JSON to", filename>> >>,
             fetched.ran, <<write_file(filename, fetched.text)>>, "none")

\* cli._fetch_and_save(query_str, save, output, filename_prefix)
_fetch_and_save(query_str, save, output, filename_prefix, now, env, h, rem) ==
    SaveFetched(fetch_from_gerrit(query_str, load_gerrit_config(env, h), rem), save,
                Filename(output, filename_prefix, now))

\* cli._load_from_file(filepath)
_load_from_file(fs, filepath) ==
    IF read_file(fs, filepath).ok
    THEN Did(read_file(fs, filepath).text, <<>>, <<>>, <<>>, <<>>, "none")
    ELSE Did(<<>>, <<>>, << <<"FATAL", "Cannot read", filepath>> >>, <<>>, <<>>,
             "SystemExit")

\* cli._load_json_content(review_file, changeid, query, save, output)
_load_json_content(a, in, now, fs, env, h, rem) ==
    IF Truthy(a.review_file) THEN _load_from_file(fs, a.review_file.v)
    ELSE IF Truthy(a.changeid)
    THEN _fetch_and_save(_normalize_changeid(a.changeid.v), a.save, a.output,
                         _normalize_changeid(a.changeid.v), now, env, h, rem)
    ELSE IF Truthy(a.query)
    THEN _fetch_and_save(a.query.v, a.save, a.output, <<"q", "u", "e", "r", "y">>, now, env, h, rem)
    ELSE IF in.isatty THEN Did(<<>>, <<>>, <<>>, <<>>, <<>>, "none")
    ELSE Did(in.text, <<>>, <<>>, <<>>, <<>>, "none")

\* cli.parse 62-63: the warning of a dry run on a local file
DryRunWarning(a) ==
    IF a.dry_run /\ Truthy(a.review_file)
    THEN << <<"WARNING", "--dry-run has no effect when reading from file">> >>
    ELSE <<>>

\* cli.parse 65: is this invocation a dry run of a fetch
IsDryRun(a) == a.dry_run /\ (Truthy(a.changeid) \/ Truthy(a.query))

\* the command lines of the model
ReviewFile == <<"r">>
ChangeIds == {<<>>, <<"7">>, ChangePrefix \o <<"7">>}
Query == <<"q">>
Output == <<"o">>
Argvs ==
    [review_file : {PyNone, PyStr(ReviewFile), PyStr(<<"c">>)},
     changeid : {PyNone} \cup {PyStr(c) : c \in ChangeIds},
     query : {PyNone, PyStr(Query)},
     save : BOOLEAN,
     output : {PyNone, PyStr(<<>>), PyStr(Output)},
     dry_run : BOOLEAN]

\* the texts a fetch or standard input may give: nothing, a review with a
\* trailing newline, a text that is not JSON
EmptyReview == <<"{", "}", "\n">>
Payloads == {<<>>, EmptyReview, <<"{">>}

\* the ssh process: it cannot be started, it fails, or it prints a payload
Remotes ==
    {[started |-> FALSE, returncode |-> 0, stdout |-> <<>>],
     [started |-> TRUE, returncode |-> 1, stdout |-> <<>>]}
    \cup {[started |-> TRUE, returncode |-> 0, stdout |-> t] : t \in Payloads}

\* the moments datetime.now() may give
Clock == {<<"2", "0", "2", "4", "0", "1", "0", "2", "_", "0", "3", "0", "4", "0", "5">>, <<"2", "0", "2", "5", "1", "2", "3", "1", "_", "2", "3", "5", "9", "5", "9">>}

\* the checkout together with a review saved earlier
CliFiles == LocalFiles @@ (ReviewFile :> File(TRUE, TRUE, <<EmptyReview>>))

\* where the connection settings are: in the environment, in ~/.env.gerrit,
\* in both, or nowhere
CliEnvirons == {<<>>, EnvValue}
CliHomes ==
    {[config |-> NoConfigFile, env_file |-> NoEnvFile],
     [config |-> NoConfigFile,
      env_file |-> File(TRUE, TRUE, <<HostLine, PortLine, UserLine>>)]}

(***************************************************************************)
(* cli.parse, from the point where _load_json_content has returned.        *)
(***************************************************************************)
\* fatal_exit as it would be if it exited with status 0
fatal_exitZero == [pc |-> "fatal", exit_code |-> 0]

\* errors.fatal_exit: logger.fatal(msg); sys.exit(1)
fatal_exit == [pc |-> "fatal", exit_code |-> 1]

\* the except clause as it would be if it logged and went on
OnJSONDecodeErrorContinue == [pc |-> "parsed", exit_code |-> Running]

\* parse_json_content's except clause: logger.fatal(...); sys.exit(1)
OnJSONDecodeError == [pc |-> "fatal", exit_code |-> 1]

\* an exception nothing catches: the interpreter prints it and exits 1
Uncaught == [pc |-> "crashed", exit_code |-> 1]

\* `parse` without --file, --changeid, --query: the text came from standard
\* input, nothing is configured, no process is run and no file written
NoArgv ==
    [review_file |-> PyNone, changeid |-> PyNone, query |-> PyNone,
     save |-> FALSE, output |-> PyNone, dry_run |-> FALSE]
NoHome == [config |-> NoConfigFile, env_file |-> NoEnvFile]
NoRemote == [started |-> TRUE, returncode |-> 0, stdout |-> <<>>]
Terminal == [isatty |-> TRUE, text |-> <<>>]
Piped(text) == [isatty |-> FALSE, text |-> text]
FromStdin ==
    /\ argv = NoArgv
    /\ stdin = Piped(json_content)
    /\ environ = <<>>
    /\ home = NoHome
    /\ remote = NoRemote
    /\ ran = <<>>
    /\ written = <<>>
    /\ result = PyNone
    /\ call = PyNone

Init ==
    /\ pc = "loaded"
    /\ json_content \in Inputs(MaxRaw, MaxBody, MaxTrail)
    /\ data = PyNone
    /\ unresolved_only = FALSE
    /\ json_output = FALSE
    /\ comments = <<>>
    /\ stdout = <<>>
    /\ stderr = <<>>
    /\ exit_code = Running
    /\ error = "none"
    /\ calls = <<>>
    /\ files = LocalFiles
    /\ FromStdin

\* cli.parse 71-74: the empty-input check, then parse_json_content
ParseJsonContent ==
    /\ pc = "loaded"
    /\ IF json_content = <<>>
       THEN /\ pc' = fatal_exit.pc
            /\ exit_code' = fatal_exit.exit_code
            /\ error' = "No input provided"
            /\ stderr' = Append(stderr, <<"FATAL", "No input provided">>)
            /\ UNCHANGED <<data, calls>>
       ELSE LET r == parse_json_content(json_content)
            IN  /\ calls' = Append(calls, "parse_json_content")
                /\ IF r.ok
                   THEN /\ pc' = "parsed"
                        /\ data' = r.val
                        /\ UNCHANGED <<exit_code, error, stderr>>
                   ELSE /\ pc' = OnJSONDecodeError.pc
                        /\ exit_code' = OnJSONDecodeError.exit_code
                        /\ error' = "JSONDecodeError"
                        /\ stderr' = Append(stderr, <<"FATAL", "Invalid JSON">>)
                        /\ UNCHANGED data
    /\ UNCHANGED <<json_content, unresolved_only, json_output, comments, stdout, files>>
    /\ UNCHANGED world

\* cli.parse 75: comments = extract_comments(data, unresolved_only)
ExtractComments ==
    /\ pc = "parsed"
    /\ calls' = Append(calls, "extract_comments")
    /\ LET r == extract_comments(data, unresolved_only)
       IN  IF r.raised = "none"
           THEN /\ pc' = "extracted"
                /\ comments' = r.val
                /\ UNCHANGED <<exit_code, error>>
           ELSE /\ pc' = Uncaught.pc
                /\ exit_code' = Uncaught.exit_code
                /\ error' = r.raised
                /\ UNCHANGED comments
    /\ UNCHANGED <<json_content, data, unresolved_only, json_output, stdout, stderr, files>>
    /\ UNCHANGED world

\* cli.parse 76: _output_result, after which the command returns
OutputResult ==
    /\ pc = "extracted"
    /\ calls' = Append(calls, "_output_result")
    /\ LET r == _output_result(data, comments, json_output, unresolved_only, files)
       IN  /\ stdout' = stdout \o r.out
           /\ stderr' = stderr \o r.err
           /\ IF r.raised
              THEN /\ pc' = Uncaught.pc
                   /\ exit_code' = Uncaught.exit_code
                   /\ error' = "OSError"
              ELSE /\ pc' = "done"
                   /\ exit_code' = 0
                   /\ UNCHANGED error
    /\ UNCHANGED <<json_content, data, unresolved_only, json_output, comments, files>>
    /\ UNCHANGED world

Next == ParseJsonContent \/ ExtractComments \/ OutputResult

Spec == Init /\ [][Next]_vars

(***************************************************************************)
(* extract_comments as a function of the parsed review: the parse has      *)
(* returned data, drawn here from the generated reviews.                   *)
(***************************************************************************)
InitExtract ==
    /\ pc = "parsed"
    /\ json_content = Elided
    /\ IsReview(data, MaxPatchSets, MaxTotal, MaxMalformed)
    /\ unresolved_only \in BOOLEAN
    /\ json_output = FALSE
    /\ comments = <<>>
    /\ stdout = <<>>
    /\ stderr = <<>>
    /\ exit_code = Running
    /\ error = "none"
    /\ calls = <<"parse_json_content">>
    /\ files = LocalFiles
    /\ FromStdin

NextExtract == ExtractComments

SpecExtract == InitExtract /\ [][NextExtract]_vars

(***************************************************************************)
(* _output_result as a function of the review and the comment list:        *)
(* extract_comments has returned, and the list is drawn in any order.      *)
(***************************************************************************)
InitOutput ==
    /\ pc = "extracted"
    /\ json_content = Elided
    /\ data \in {PyDict(Meta), PyDict(EmptyMap)}
    /\ comments \in UNION {[1..n -> CommentPool] : n \in 0..MaxComments}
    /\ unresolved_only \in BOOLEAN
    /\ unresolved_only => \A i \in DOMAIN comments : comments[i].unresolved
    /\ json_output \in BOOLEAN
    /\ stdout = <<>>
    /\ stderr = <<>>
    /\ exit_code = Running
    /\ error = "none"
    /\ calls = <<"parse_json_content", "extract_comments">>
    /\ files = LocalFiles
    /\ FromStdin

NextOutput == OutputResult

SpecOutput == InitOutput /\ [][NextOutput]_vars

(***************************************************************************)
(* parser.display_review called on its own, with a comment list in any     *)
(* order.                                                                  *)
(***************************************************************************)
InitDisplay ==
    /\ pc = "call"
    /\ json_content = Elided
    /\ data \in {PyDict(Meta), PyDict(EmptyMap)}
    /\ comments \in UNION {[1..n -> CommentPool] : n \in 0..MaxComments}
    /\ unresolved_only \in BOOLEAN
    /\ unresolved_only => \A i \in DOMAIN comments : comments[i].unresolved
    /\ json_output = FALSE
    /\ stdout = <<>>
    /\ stderr = <<>>
    /\ exit_code = Running
    /\ error = "none"
    /\ calls = <<>>
    /\ files = LocalFiles
    /\ FromStdin

\* parser.display_review(data, comments, unresolved_only)
ParserDisplayReview ==
    /\ pc = "call"
    /\ calls' = Append(calls, "parser.display_review")
    /\ \E r \in {parser_display_review(data, comments, unresolved_only, files)} :
          /\ stdout' = stdout \o r.out
          /\ stderr' = stderr \o r.err
          /\ IF r.raised
             THEN pc' = Uncaught.pc /\ error' = "OSError"
             ELSE pc' = "returned" /\ UNCHANGED error
    /\ UNCHANGED <<json_content, data, unresolved_only, json_output, comments,
                   exit_code, files, world>>

NextDisplay == ParserDisplayReview

SpecDisplay == InitDisplay /\ [][NextDisplay]_vars

(***************************************************************************)
(* show_code_context called on its own, with any line number and radius,   *)
(* on a file of any length.                                                *)
(***************************************************************************)
InitContext ==
    /\ pc = "call"
    /\ json_content = Elided
    /\ data = PyNone
    /\ comments = <<>>
    /\ unresolved_only = FALSE
    /\ json_output = FALSE
    /\ stdout = <<>>
    /\ stderr = <<>>
    /\ exit_code = Running
    /\ error = "none"
    /\ calls = <<>>
    /\ files \in {<<"a">> :> File(TRUE, TRUE, NumberedLines(n)) : n \in 0..MaxLines}
    /\ argv = NoArgv
    /\ stdin = Terminal
    /\ environ = <<>>
    /\ home = NoHome
    /\ remote = NoRemote
    /\ ran = <<>>
    /\ written = <<>>
    /\ result = PyNone
    /\ call \in [filepath : {<<"a">>}, line_num : 0..MaxLineNum, context : 0..MaxRadius]

\* show_code_context(filepath, line_num, context)
ShowCodeContext ==
    /\ pc = "call"
    /\ calls' = Append(calls, "show_code_context")
    /\ LET r == show_code_context(files, call.filepath, call.line_num, call.context)
       IN  /\ stdout' = stdout \o r.out
           /\ stderr' = stderr \o r.err
           /\ IF r.raised
              THEN pc' = Uncaught.pc /\ error' = "OSError"
              ELSE pc' = "returned" /\ UNCHANGED error
    /\ UNCHANGED <<json_content, data, unresolved_only, json_output, comments,
                   exit_code, files, world>>

NextContext == ShowCodeContext

SpecContext == InitContext /\ [][NextContext]_vars

(***************************************************************************)
(* config.load_config and config.get_config_with_sources, each called on   *)
(* its own in any environment and with any state of config.toml.           *)
(***************************************************************************)
\* the state before a function is called on its own
Idle ==
    /\ pc = "call"
    /\ json_content = Elided
    /\ data = PyNone
    /\ comments = <<>>
    /\ unresolved_only = FALSE
    /\ json_output = FALSE
    /\ stdout = <<>>
    /\ stderr = <<>>
    /\ exit_code = Running
    /\ error = "none"
    /\ calls = <<>>
    /\ files = LocalFiles
    /\ argv = NoArgv
    /\ stdin = Terminal
    /\ remote = NoRemote
    /\ ran = <<>>
    /\ written = <<>>
    /\ result = PyNone
    /\ call = PyNone

InitConfig ==
    /\ Idle
    /\ environ \in Environs
    /\ home \in {[config |-> c, env_file |-> NoEnvFile] : c \in ConfigFiles}

\* a configuration function returns r or raises
Return(name, r) ==
    /\ calls' = Append(calls, name)
    /\ result' = r
    /\ pc' = IF r.raised = "none" THEN "returned" ELSE "raised"
    /\ error' = r.raised
    /\ UNCHANGED <<json_content, data, unresolved_only, json_output, comments,
                   stdout, stderr, exit_code, files>>
    /\ UNCHANGED <<argv, stdin, environ, home, remote, ran, written, call>>

\* load_config()
LoadConfig ==
    /\ pc = "call"
    /\ Return("load_config", load_config(environ, home))

\* get_config_with_sources()
GetConfigWithSources ==
    /\ pc = "call"
    /\ Return("get_config_with_sources", get_config_with_sources(environ, home))

NextConfig == LoadConfig \/ GetConfigWithSources

SpecConfig == InitConfig /\ [][NextConfig]_vars

(***************************************************************************)
(* gerrit.load_gerrit_config called on its own (env=None, env_file=None)   *)
(* in any environment and with any state of ~/.env.gerrit.                 *)
(***************************************************************************)
InitGerrit ==
    /\ Idle
    /\ environ \in Environs
    /\ home \in {[config |-> NoConfigFile, env_file |-> e] : e \in EnvFiles}

\* load_gerrit_config(): it returns, or die() ends the process
LoadGerritConfig ==
    /\ pc = "call"
    /\ calls' = Append(calls, "load_gerrit_config")
    /\ LET r == load_gerrit_config(environ, home)
       IN  /\ result' = r
           /\ error' = r.raised
           /\ IF r.raised = "none"
              THEN pc' = "returned" /\ UNCHANGED <<stderr, exit_code>>
              ELSE /\ pc' = fatal_exit.pc
                   /\ exit_code' = fatal_exit.exit_code
                   /\ stderr' = Append(stderr, r.msg)
    /\ UNCHANGED <<json_content, data, unresolved_only, json_output, comments,
                   stdout, files>>
    /\ UNCHANGED <<argv, stdin, environ, home, remote, ran, written, call>>

NextGerrit == LoadGerritConfig

SpecGerrit == InitGerrit /\ [][NextGerrit]_vars

(***************************************************************************)
(* cli.parse from its first line: any command line, any standard input,    *)
(* the connection settings there or not, and any behaviour of ssh.         *)
(***************************************************************************)
InitCli ==
    /\ pc = "start"
    /\ json_content = <<>>
    /\ data = PyNone
    /\ unresolved_only = FALSE
    /\ json_output \in BOOLEAN
    /\ comments = <<>>
    /\ stdout = <<>>
    /\ stderr = <<>>
    /\ exit_code = Running
    /\ error = "none"
    /\ calls = <<>>
    /\ files = CliFiles
    /\ argv \in Argvs
    /\ stdin \in {Terminal, Piped(<<>>), Piped(EmptyReview)}
    /\ environ \in CliEnvirons
    /\ home \in CliHomes
    /\ remote \in Remotes
    /\ ran = <<>>
    /\ written = <<>>
    /\ result = PyNone
    /\ call = PyNone

\* cli.parse 62-67: the warning, then the dry run, after which the command
\* returns (or die() has ended the process)
HandleDryRun ==
    /\ pc = "start"
    /\ IsDryRun(argv)
    /\ calls' = Append(calls, "_handle_dry_run")
    /\ \E r \in {_handle_dry_run(argv.changeid, argv.query, json_output, environ, home)} :
           /\ stdout' = stdout \o r.out
           /\ stderr' = stderr \o DryRunWarning(argv) \o r.err
           /\ ran' = ran \o r.ran
           /\ written' = written \o r.written
           /\ IF r.raised = "none"
              THEN pc' = "done" /\ exit_code' = 0 /\ UNCHANGED error
              ELSE /\ pc' = fatal_exit.pc
                   /\ exit_code' = fatal_exit.exit_code
                   /\ error' = r.raised
    /\ UNCHANGED <<json_content, data, unresolved_only, json_output, comments, files>>
    /\ UNCHANGED <<argv, stdin, environ, home, remote, result, call>>

\* cli.parse 62-69: the warning, then _load_json_content
LoadJsonContent ==
    /\ pc = "start"
    /\ ~IsDryRun(argv)
    /\ calls' = Append(calls, "_load_json_content")
    /\ \E now \in Clock :
         \E r \in {_load_json_content(argv, stdin, now, files, environ, home, remote)} :
             /\ stderr' = stderr \o DryRunWarning(argv) \o r.err
             /\ ran' = ran \o r.ran
             /\ written' = written \o r.written
             /\ IF r.raised = "none"
                THEN /\ pc' = "loaded"
                     /\ json_content' = r.text
                     /\ UNCHANGED <<exit_code, error>>
                ELSE /\ pc' = fatal_exit.pc
                     /\ exit_code' = fatal_exit.exit_code
                     /\ error' = r.raised
                     /\ UNCHANGED json_content
    /\ UNCHANGED <<data, unresolved_only, json_output, comments, stdout, files>>
    /\ UNCHANGED <<argv, stdin, environ, home, remote, result, call>>

NextCli ==
    \/ HandleDryRun
    \/ LoadJsonContent
    \/ ParseJsonContent
    \/ ExtractComments
    \/ OutputResult

SpecCli == InitCli /\ [][NextCli]_vars

(***************************************************************************)
(* The claims.                                                             *)
(***************************************************************************)
Range(s) == {s[i] : i \in DOMAIN s}
Count(s, x) == Cardinality({i \in DOMAIN s : s[i] = x})

\* x is the text of one well-formed JSON object, ending at its brace
IsObjectText(x) ==
    /\ x # <<>>
    /\ x[Len(x)] = "}"
    /\ JsonLoads(x).ok
    /\ JsonLoads(x).val.t = "dict"

Returned == pc \in {"extracted", "done"}

\* C1: when the input is one well-formed JSON object followed by any
\* trailing text, parse_json_content returns the parse of that first
\* object (and so nothing of the trailing text), and does not fail.
C1_FirstObjectOnly ==
    \A k \in 1..Len(json_content) :
        (pc # "loaded" /\ IsObjectText(SubSeq(json_content, 1, k)))
            => /\ pc # "fatal"
               /\ error # "JSONDecodeError"
               /\ data = JsonLoads(SubSeq(json_content, 1, k)).val

\* a first object with a brace inside a string, then a second object
C1_Witness ==
    /\ pc = "done"
    /\ \E k \in 1..(Len(json_content) - 1) :
          /\ IsObjectText(SubSeq(json_content, 1, k))
          /\ IsObjectText(SubSeq(json_content, k + 1, Len(json_content)))
          /\ \E i \in 2..(k - 1) : json_content[i] = "}"
          /\ data = JsonLoads(SubSeq(json_content, 1, k)).val

\* C2: when the whole input is one well-formed JSON object with no
\* trailing bytes, parse_json_content returns what json.loads returns on
\* the whole input.
C2_SingleObjectAsDirectParse ==
    (pc # "loaded" /\ IsObjectText(json_content))
        => /\ pc # "fatal"
           /\ error # "JSONDecodeError"
           /\ data = JsonLoads(json_content).val

\* a single object whose string holds an escaped quote and a brace
C2_Witness ==
    /\ pc = "parsed"
    /\ IsObjectText(json_content)
    /\ \E i \in 1..(Len(json_content) - 2) :
          /\ json_content[i] = "\\"
          /\ json_content[i + 1] = "\""
          /\ json_content[i + 2] = "}"
    /\ data = JsonLoads(json_content).val

\* json.loads fails on the text parse_json_content hands it: the prefix up
\* to the first object's end, or the whole input when the scan finds none
ParseFails ==
    /\ json_content # <<>>
    /\ json_content # Elided
    /\ ~JsonLoads(TextToParse(json_content)).ok

\* C3: once JSON parsing has failed (on the extracted prefix or on the
\* whole-input fallback) the invocation is in the fatal state with a
\* non-zero exit status, nothing runs any more, and neither
\* extract_comments nor the output was ever entered.
C3_ParseFailureIsFatal ==
    (pc # "loaded" /\ ParseFails)
        => /\ pc = "fatal"
           /\ exit_code # Running /\ exit_code # 0
           /\ calls = <<"parse_json_content">>
           /\ comments = <<>>
           /\ stdout = <<>>
           /\ ~ENABLED Next

\* the prefix up to the first balanced brace fails to parse, with more
\* text after it
C3_Witness ==
    /\ pc = "fatal"
    /\ error = "JSONDecodeError"
    /\ FirstObjectEnd(json_content) > 0
    /\ FirstObjectEnd(json_content) < Len(json_content)

\* the other case of C3: no balanced brace is found, and the whole input
\* fails to parse
C3_FallbackReached ==
    /\ pc = "fatal"
    /\ error = "JSONDecodeError"
    /\ FirstObjectEnd(json_content) = 0
    /\ Len(json_content) >= 3

\* C4: the list extract_comments returns is sorted by (file, line): for
\* every adjacent pair, c1.file < c2.file, or the files are equal and
\* c1.line <= c2.line.
C4_SortedByFileLine ==
    Returned =>
        \A i \in 1..(Len(comments) - 1) :
            \/ StrLt(comments[i].file, comments[i + 1].file)
            \/ /\ comments[i].file = comments[i + 1].file
               /\ comments[i].line <= comments[i + 1].line

\* three comments of two files returned, the first record met being the
\* last of the result
C4_Witness ==
    /\ pc = "extracted"
    /\ Len(comments) = 3
    /\ comments[1].file # comments[3].file
    /\ _extract_comment(RawComments(data)[1]).c = comments[3]
    /\ comments[1] # comments[3]

\* a record with all the fields the spec requires
IsValidRecord(r) ==
    /\ HasKey(r, "file") /\ HasKey(r, "line") /\ HasKey(r, "message")
    /\ HasKey(r, "reviewer") /\ HasKey(r.v["reviewer"], "name")

\* the comment the spec makes of a valid record
ExpectedComment(r) ==
    [file |-> r.v["file"].v, line |-> r.v["line"].v,
     reviewer |-> r.v["reviewer"].v["name"].v, message |-> r.v["message"].v,
     unresolved |-> IF HasKey(r, "unresolved") THEN r.v["unresolved"].v ELSE TRUE]

\* the comments of the valid records, in encounter order, after the
\* requested filter
Encountered ==
    LET valid == SelectSeq(RawComments(data), IsValidRecord)
        all == [k \in 1..Len(valid) |-> ExpectedComment(valid[k])]
        Wanted(c) == ~unresolved_only \/ c.unresolved
    IN  SelectSeq(all, Wanted)

\* C5: the sort is stable: the returned comments of one (file, line) are
\* in their encounter order (patch-set order, then the order within the
\* patch set).
C5_StableSort ==
    Returned =>
        \A c \in Range(comments) :
            LET SameKey(x) == x.file = c.file /\ x.line = c.line
            IN  SelectSeq(comments, SameKey) = SelectSeq(Encountered, SameKey)

\* two different comments of one (file, line), from two patch sets, with a
\* third comment of a smaller key met between them
C5_Witness ==
    /\ pc = "extracted"
    /\ Len(comments) = 3
    /\ Len(PatchSets(data)) = 2
    /\ Len(PatchSetComments(PatchSets(data)[1])) = 1
    /\ comments[2].file = comments[3].file
    /\ comments[2].line = comments[3].line
    /\ comments[2] # comments[3]
    /\ Encountered[1] = comments[2]
    /\ Encountered[3] = comments[3]

\* C6: a record that lacks file, line, reviewer, message or the reviewer's
\* name is left out without raising, and every valid record of the review
\* is still returned.
C6_MalformedRecordsDropped ==
    (pc # "parsed")
        => /\ Returned
           /\ error = "none"
           /\ Len(comments) = Len(Encountered)
           /\ \A c \in Range(Encountered) : Count(comments, c) = Count(Encountered, c)

\* C7: a valid record without an `unresolved` key yields a Comment with
\* unresolved = TRUE, which is returned also when unresolved_only is set.
C7_UnresolvedDefaultsToTrue ==
    Returned =>
        \A k \in 1..Len(RawComments(data)) :
            LET r == RawComments(data)[k]
            IN  (IsValidRecord(r) /\ ~HasKey(r, "unresolved"))
                    => \E i \in 1..Len(comments) :
                          /\ comments[i].unresolved
                          /\ comments[i].file = r.v["file"].v
                          /\ comments[i].line = r.v["line"].v
                          /\ comments[i].reviewer = r.v["reviewer"].v["name"].v
                          /\ comments[i].message = r.v["message"].v

\* unresolved_only is set, a record without the key is kept and a resolved
\* one is filtered out
C7_Witness ==
    /\ pc = "extracted"
    /\ unresolved_only
    /\ \E k \in 1..Len(RawComments(data)) : ~HasKey(RawComments(data)[k], "unresolved")
    /\ \E k \in 1..Len(RawComments(data)) :
          /\ HasKey(RawComments(data)[k], "unresolved")
          /\ ~RawComments(data)[k].v["unresolved"].v
    /\ Len(comments) = 2

\* C8: with unresolved_only the result holds exactly the validated
\* comments that are unresolved (each as often as it was met), without it
\* exactly the validated comments.
C8_FilterExact ==
    Returned =>
        LET valid == SelectSeq(RawComments(data), IsValidRecord)
            validated == [k \in 1..Len(valid) |-> ExpectedComment(valid[k])]
        IN  /\ unresolved_only => \A i \in 1..Len(comments) : comments[i].unresolved
            /\ \A c \in Range(validated) \cup Range(comments) :
                  Count(comments, c) =
                      IF unresolved_only /\ ~c.unresolved THEN 0 ELSE Count(validated, c)

\* unresolved_only is set, and of three validated comments one is dropped
C8_Witness ==
    /\ pc = "extracted"
    /\ unresolved_only
    /\ Len(RawComments(data)) = 3
    /\ Len(comments) = 2
    /\ \E k \in 1..3 :
          /\ HasKey(RawComments(data)[k], "unresolved")
          /\ ~RawComments(data)[k].v["unresolved"].v

HasComments(ps) == HasKey(ps, "comments")

\* the review without its patch sets that have no `comments` key
WithoutBarePatchSets(d) ==
    IF ~HasKey(d, "patchSets") THEN d
    ELSE PyDict([d.v EXCEPT !["patchSets"] =
                    PyList(SelectSeq(d.v["patchSets"].v, HasComments))])

\* C9: an absent or empty patchSets gives the empty list without error,
\* and a patch set without a `comments` key counts as one with no
\* comments: the outcome is that of the review without such patch sets.
C9_MissingCollectionsAreEmpty ==
    (pc # "parsed") =>
        /\ (~HasKey(data, "patchSets") \/ data.v["patchSets"].v = <<>>
            \/ \A k \in 1..Len(data.v["patchSets"].v) :
                  ~HasComments(data.v["patchSets"].v[k]))
              => (Returned /\ error = "none" /\ comments = <<>>)
        /\ LET r == extract_comments(WithoutBarePatchSets(data), unresolved_only)
           IN  error = r.raised /\ comments = r.val

\* a patch set without `comments` comes first, and the comments of the
\* one after it are returned
C9_Witness ==
    /\ pc = "extracted"
    /\ Len(PatchSets(data)) = 2
    /\ ~HasComments(PatchSets(data)[1])
    /\ Len(comments) = 2

\* the other cases of C9: patchSets absent, and patchSets empty
C9_AbsentReached == pc = "extracted" /\ ~HasKey(data, "patchSets") /\ comments = <<>>
C9_EmptyReached ==
    pc = "extracted" /\ HasKey(data, "patchSets") /\ PatchSets(data) = <<>>

\* the five fields of a comment in the structured output
CommentFields == {"file", "line", "reviewer", "message", "unresolved"}

\* C11: the structured output round-trips: the JSON text written, parsed
\* back, gives the project, change number and subject of the internal
\* summary (the review's, or the defaults), and a comments list of the
\* same length and order in which every comment has exactly the five
\* fields with the values of the comment.
C11_StructuredOutputRoundTrips ==
    (pc # "extracted" /\ json_output) =>
        /\ pc = "done"
        /\ Len(stdout) = 1
        /\ stdout[1][1] = "json"
        /\ LET back == JsonLoads(stdout[1][2])
           IN  /\ back.ok
               /\ back.val.t = "dict"
               /\ DOMAIN back.val.v = {"project", "change_number", "subject", "comments"}
               /\ back.val.v["project"] =
                      (IF HasKey(data, "project") THEN data.v["project"] ELSE Unknown)
               /\ back.val.v["change_number"] =
                      (IF HasKey(data, "number") THEN data.v["number"] ELSE Unknown)
               /\ back.val.v["subject"] =
                      (IF HasKey(data, "subject") THEN data.v["subject"] ELSE NoSubject)
               /\ back.val.v["comments"].t = "list"
               /\ Len(back.val.v["comments"].v) = Len(comments)
               /\ \A i \in 1..Len(comments) :
                     LET c == back.val.v["comments"].v[i]
                     IN  /\ c.t = "dict"
                         /\ DOMAIN c.v = CommentFields
                         /\ c.v["file"] = PyStr(comments[i].file)
                         /\ c.v["line"] = PyInt(comments[i].line)
                         /\ c.v["reviewer"] = PyStr(comments[i].reviewer)
                         /\ c.v["message"] = PyStr(comments[i].message)
                         /\ c.v["unresolved"] = PyBool(comments[i].unresolved)

\* three comments written as JSON, one with a message that needs escaping,
\* a resolved one after an unresolved one, for a review with its own fields
C11_Witness ==
    /\ pc = "done"
    /\ json_output
    /\ HasKey(data, "project")
    /\ Len(comments) = 3
    /\ comments[1].unresolved /\ ~comments[2].unresolved
    /\ \E i \in 1..Len(comments[2].message) : comments[2].message[i] = "\""
    /\ comments[3].file # comments[1].file

\* the other case of C11: the review has none of the three fields
C11_DefaultsReached ==
    pc = "done" /\ json_output /\ ~HasKey(data, "number") /\ comments # <<>>

\* the human-readable output has been written
Displayed == pc = "done" /\ ~json_output /\ comments # <<>>

\* the file of the last sub-header printed before line j of the output
HeaderBefore(j) ==
    LET hs == {i \in 1..(j - 1) : stdout[i][1] = "file"}
    IN  IF hs = {} THEN <<"(none)">>
        ELSE stdout[CHOOSE i \in hs : \A k \in hs : k <= i][2]

\* the lines of the output that print the comment c under its file's
\* sub-header: its line, reviewer and status, then its message
PrintedAt(c) ==
    {j \in 1..(Len(stdout) - 1) :
        /\ stdout[j][1] = "comment"
        /\ stdout[j][2] = c.line
        /\ stdout[j][3] = c.reviewer
        /\ stdout[j][4] = (IF c.unresolved THEN " [UNRESOLVED]" ELSE "")
        /\ stdout[j + 1][1] = "message"
        /\ stdout[j + 1][2] = c.message
        /\ HeaderBefore(j) = c.file}

\* C12: in human-readable mode, for a non-empty comment list in any order,
\* display_review prints exactly one sub-header per distinct file, and
\* every comment is printed (as often as it is in the list) under the
\* sub-header of its own file.
C12_OneSubHeaderPerFile ==
    Displayed =>
        /\ \A c \in Range(comments) :
              Cardinality({i \in 1..Len(stdout) :
                              stdout[i][1] = "file" /\ stdout[i][2] = c.file}) = 1
        /\ \A i \in 1..Len(stdout) :
              stdout[i][1] = "file" => \E c \in Range(comments) : c.file = stdout[i][2]
        /\ \A c \in Range(comments) : Cardinality(PrintedAt(c)) = Count(comments, c)
        /\ Cardinality({j \in 1..Len(stdout) : stdout[j][1] = "comment"}) = Len(comments)

\* the list is given out of order: two comments of one file around a
\* comment of another file
C12_Witness ==
    /\ Displayed
    /\ Len(comments) = 3
    /\ comments[1].file = comments[3].file
    /\ comments[1].file # comments[2].file
    /\ comments[1] # comments[3]

\* the lines that follow the message printed at j, up to the next comment
\* or sub-header
RECURSIVE AfterMessage(_)
AfterMessage(j) ==
    IF j > Len(stdout) \/ stdout[j][1] \in {"comment", "file"} THEN <<>>
    ELSE <<stdout[j]>> \o AfterMessage(j + 1)

\* the file is not in the local checkout, or its path starts with "/"
NoLocalCopy(c) ==
    \/ c.file \notin DOMAIN files
    \/ ~files[c.file].exists
    \/ c.file[1] = "/"

\* C14: for a comment whose file does not exist locally, or whose path
\* begins with "/", nothing follows its header and message (no context
\* line, no separator), no exception is raised and no error is logged for
\* its file; the comment's own header and message are printed.
C14_NoContextWithoutLocalCopy ==
    (pc # "extracted" /\ ~json_output) =>
        \A c \in Range(comments) :
            NoLocalCopy(c) =>
                /\ pc = "done"
                /\ error = "none"
                /\ Cardinality(PrintedAt(c)) = Count(comments, c)
                /\ \A j \in PrintedAt(c) : AfterMessage(j + 2) = <<>>
                /\ \A i \in 1..Len(stderr) : stderr[i][3] # c.file

\* a comment on a file that is not there, one on an absolute path whose
\* file is there, and one whose context is shown
C14_Witness ==
    /\ Displayed
    /\ \E c \in Range(comments) : c.file \notin DOMAIN files
    /\ \E c \in Range(comments) : c.file[1] = "/" /\ c.file \in DOMAIN files
    /\ \E i \in 1..Len(stdout) : stdout[i][1] = "context"

\* reading the file fails although the existence check has passed
ReadFails(c) ==
    /\ c.file[1] # "/"
    /\ c.file \in DOMAIN files
    /\ files[c.file].exists
    /\ ~files[c.file].readable

\* C15: when reading a context file fails after the existence check has
\* passed, the failure is logged as a diagnostic, once per such comment;
\* the invocation does not terminate on it (it ends with status 0), and
\* every comment of the list, the later ones included, is printed.
C15_ReadFailureIsDiagnosticOnly ==
    (pc # "extracted" /\ ~json_output /\ \E c \in Range(comments) : ReadFails(c)) =>
        /\ pc = "done"
        /\ exit_code = 0
        /\ error = "none"
        /\ \A c \in Range(comments) :
              /\ Cardinality(PrintedAt(c)) = Count(comments, c)
              /\ ReadFails(c) =>
                    Cardinality({i \in 1..Len(stderr) :
                                    stderr[i] = <<"ERROR", "Cannot read", c.file>>})
                        = Cardinality({k \in 1..Len(comments) :
                                          comments[k].file = c.file})

\* a comment whose file cannot be read is printed first, and two more
\* comments are printed after it, one of them with its context
C15_Witness ==
    /\ Displayed
    /\ Len(comments) = 3
    /\ Len(stderr) = 1
    /\ \E c \in Range(comments) :
          /\ ReadFails(c)
          /\ \A j \in PrintedAt(c) :
                Cardinality({k \in (j + 1)..Len(stdout) : stdout[k][1] = "comment"}) = 2
    /\ \E i \in 1..Len(stdout) : stdout[i][1] = "context"

\* the window of the call: the 0-based indices lo..hi-1 of a file of n lines
WindowLo == IF call.line_num - call.context - 1 > 0
            THEN call.line_num - call.context - 1 ELSE 0
WindowHi == IF call.line_num + call.context < Len(files[call.filepath].lines)
            THEN call.line_num + call.context ELSE Len(files[call.filepath].lines)

\* the lines of the file that show_code_context has emitted
ContextLines ==
    LET IsContext(l) == l[1] = "context"
    IN  SelectSeq(stdout, IsContext)

\* the emitted lines are exactly the indices of the window, ascending, each
\* with the number i+1 and the text of line i, the marker on line L only
WindowEmitted ==
    /\ Len(ContextLines) = (IF WindowHi > WindowLo THEN WindowHi - WindowLo ELSE 0)
    /\ \A j \in 1..Len(ContextLines) :
          LET i == WindowLo + j - 1
          IN  /\ i >= 0 /\ i < Len(files[call.filepath].lines)
              /\ ContextLines[j][2] = i + 1
              /\ ContextLines[j][3] \in {">>>", "   "}
              /\ (ContextLines[j][3] = ">>>") <=> (i + 1 = call.line_num)
              /\ ContextLines[j][4] = IntChars(i + 1)

\* C13, as stated: show_code_context emits exactly the lines of the window
\* max(0, L-r-1) <= i < min(n, L+r), ascending, numbered i+1, the marker on
\* line L only, and emits nothing at all when the window is empty.
C13_NothingEmittedForEmptyWindow ==
    pc = "returned" =>
        /\ WindowEmitted
        /\ WindowHi <= WindowLo => stdout = <<>>

\* C13, amended: show_code_context emits exactly the lines of the window
\* max(0, L-r-1) <= i < min(n, L+r), ascending, numbered i+1, the marker on
\* line L only; before them it emits one blank separator line, which is
\* all it emits when the window is empty; it logs no error.
C13_ContextWindow ==
    pc = "returned" =>
        /\ WindowEmitted
        /\ stdout = << <<"">> >> \o ContextLines
        /\ stderr = <<>>

\* a window clamped at both ends of the file, with the marked line in it
C13_Witness ==
    /\ pc = "returned"
    /\ call.line_num - call.context - 1 < 0
    /\ call.line_num + call.context > Len(files[call.filepath].lines)
    /\ Len(ContextLines) >= 3
    /\ \E j \in 1..Len(ContextLines) : ContextLines[j][3] = ">>>"

\* the other cases of C13: a window strictly inside the file, and an empty
\* window, the line number being beyond the end of a file that has lines
C13_InsideReached ==
    /\ pc = "returned"
    /\ WindowLo > 0
    /\ WindowHi < Len(files[call.filepath].lines)
    /\ Len(ContextLines) = 2 * call.context + 1
C13_EmptyWindowReached ==
    /\ pc = "returned"
    /\ Len(files[call.filepath].lines) > 0
    /\ WindowLo >= WindowHi
    /\ ContextLines = <<>>

\* the environment variable of each configuration field
VariableOf == [host |-> "GERRIT_HOST", port |-> "GERRIT_PORT", user |-> "GERRIT_USER"]
Fields == {"host", "port", "user"}

\* the variable is set, in the sense of config.py: to a non-empty value
EnvSet(name) == name \in DOMAIN environ /\ environ[name] # <<>>

\* config.toml is valid: it is there, readable, TOML, with the three keys
FileIsValid ==
    /\ home.config.exists /\ home.config.readable /\ home.config.toml
    /\ Fields \subseteq DOMAIN home.config.data.v

\* the text of a field of the valid config file, an integer port in decimal
FileValue(field) ==
    LET v == home.config.data.v[field]
    IN  IF v.t = "int" THEN IntChars(v.v) ELSE v.v

\* C16: load_config puts the environment before the file: when
\* GERRIT_HOST, GERRIT_PORT and GERRIT_USER are all set (to non-empty
\* values) it returns their values, also when a valid config file exists;
\* otherwise it returns the file's values when the file is valid;
\* otherwise it raises ConfigError, whose message names the remedy: run
\* setup, or set the three environment variables.
C16_EnvironmentBeforeFile ==
    calls = <<"load_config">> =>
        IF \A f \in Fields : EnvSet(VariableOf[f])
        THEN /\ pc = "returned"
             /\ \A f \in Fields : result.cfg[f] = PyStr(environ[VariableOf[f]])
        ELSE IF FileIsValid
        THEN /\ pc = "returned"
             /\ \A f \in Fields : result.cfg[f] = PyStr(FileValue(f))
        ELSE /\ pc = "raised"
             /\ result.raised = "ConfigError"
             /\ \E i \in 1..Len(result.msg) :
                   result.msg[i] = "Please run 'gerrit-review-parser setup'"
             /\ \E i \in 1..Len(result.msg) :
                   result.msg[i] =
                     "or set environment variables GERRIT_HOST, GERRIT_PORT, GERRIT_USER."

\* the three variables are set and a valid config file with other values
\* exists: the environment's values are returned
C16_Witness ==
    /\ calls = <<"load_config">>
    /\ pc = "returned"
    /\ \A f \in Fields : EnvSet(VariableOf[f])
    /\ FileIsValid
    /\ \A f \in Fields : FileValue(f) # environ[VariableOf[f]]
    /\ result.cfg.host = PyStr(environ["GERRIT_HOST"])

\* the other cases of C16: the file's values with an incomplete
\* environment, and ConfigError with neither
C16_FileReached ==
    /\ calls = <<"load_config">>
    /\ pc = "returned"
    /\ EnvSet("GERRIT_HOST") /\ ~EnvSet("GERRIT_PORT")
    /\ result.cfg.host = PyStr(FileValue("host"))
C16_ErrorReached ==
    /\ calls = <<"load_config">>
    /\ pc = "raised"
    /\ EnvSet("GERRIT_HOST") /\ home.config.exists

\* C17: get_config_with_sources reports the provenance of each field: for
\* each of host, port and user the source is "env" and the value the
\* variable's when that variable is set (to a non-empty value), otherwise
\* the source is "file" and the value the config file's; it raises
\* ConfigError when neither a complete environment nor a valid file exists.
C17_ProvenancePerField ==
    calls = <<"get_config_with_sources">> =>
        IF ~(\A f \in Fields : EnvSet(VariableOf[f])) /\ ~FileIsValid
        THEN pc = "raised" /\ result.raised = "ConfigError"
        ELSE /\ pc = "returned"
             /\ \A f \in Fields :
                   IF EnvSet(VariableOf[f])
                   THEN /\ result.sources[f] = "env"
                        /\ result.cfg[f] = PyStr(environ[VariableOf[f]])
                   ELSE /\ result.sources[f] = "file"
                        /\ result.cfg[f] = PyStr(FileValue(f))

\* mixed provenance: the host from the environment, the port (an integer
\* in the file) and the user from the file
C17_Witness ==
    /\ calls = <<"get_config_with_sources">>
    /\ pc = "returned"
    /\ result.sources = [host |-> "env", port |-> "file", user |-> "file"]
    /\ home.config.data.v["port"].t = "int"
    /\ result.cfg.host = PyStr(environ["GERRIT_HOST"])
    /\ result.cfg.port = PyStr(FileValue("port"))

\* the other case of C17: an incomplete environment and no valid file
C17_ErrorReached ==
    /\ calls = <<"get_config_with_sources">>
    /\ pc = "raised"
    /\ EnvSet("GERRIT_HOST") /\ EnvSet("GERRIT_USER")
    /\ home.config.exists

\* the configuration load_gerrit_config returned
Loaded == result.cfg

\* the environment supplies both GERRIT_HOST and GERRIT_USER
EnvSuppliesHostAndUser == EnvSet("GERRIT_HOST") /\ EnvSet("GERRIT_USER")

C18_Returned ==
    (calls = <<"load_gerrit_config">> /\ EnvSuppliesHostAndUser) =>
        /\ pc = "returned"
        /\ Loaded.host = PyStr(environ["GERRIT_HOST"])
        /\ Loaded.user = PyStr(environ["GERRIT_USER"])
        /\ Loaded.port = IF "GERRIT_PORT" \in DOMAIN environ
                         THEN PyStr(environ["GERRIT_PORT"])
                         ELSE PyStr(<<"2", "9", "4", "1", "8">>)

\* C18: load_gerrit_config, in an environment that supplies both
\* GERRIT_HOST and GERRIT_USER, returns those two values, returns the
\* environment's GERRIT_PORT when the variable is set and "29418" otherwise,
\* whatever port ~/.env.gerrit gives, and no step changes os.environ.
C18_EnvironmentSuppliesHostAndUser ==
    [](C18_Returned) /\ [][environ' = environ]_vars

\* the environment supplies host and user but no port, and ~/.env.gerrit,
\* which gives another port, is there and readable
C18_Witness ==
    /\ calls = <<"load_gerrit_config">>
    /\ EnvSuppliesHostAndUser
    /\ "GERRIT_PORT" \notin DOMAIN environ
    /\ home.env_file.readable
    /\ \E i \in DOMAIN home.env_file.lines : home.env_file.lines[i] = PortLine
    /\ Loaded.port = PyStr(DefaultPort)

\* the environment supplies all three
C18_EnvPortReached ==
    /\ calls = <<"load_gerrit_config">>
    /\ EnvSuppliesHostAndUser
    /\ EnvSet("GERRIT_PORT")
    /\ home.env_file.readable
    /\ \E i \in DOMAIN home.env_file.lines : home.env_file.lines[i] = PortLine
    /\ Loaded.port = PyStr(environ["GERRIT_PORT"])

\* --dry-run is given with a change id or a query
DryRunOfFetch ==
    argv.dry_run /\ (Truthy(argv.changeid) \/ Truthy(argv.query))

\* the query the command line asks for, a change id as change:<id>
AskedQuery ==
    IF Truthy(argv.changeid)
    THEN ChangePrefix \o RemovePrefix(argv.changeid.v, ChangePrefix)
    ELSE argv.query.v

\* the connection settings resolve
Configured == load_gerrit_config(environ, home).raised = "none"

\* the text of the command a fetch of the asked query runs
WouldExecute ==
    JoinWith(<<" ">>,
             fetch_from_gerrit(AskedQuery, load_gerrit_config(environ, home), NoRemote).ran[1])

\* nothing was fetched, saved or parsed
NothingDone ==
    /\ ran = <<>>
    /\ written = <<>>
    /\ calls = <<"_handle_dry_run">>
    /\ json_content = <<>> /\ data = PyNone /\ comments = <<>>

\* the one line printed is the command, in the mode asked for
CommandShown ==
    /\ Len(stdout) = 1
    /\ IF json_output
       THEN /\ stdout[1][1] = "json"
            /\ JsonLoads(stdout[1][2]).ok
            /\ JsonLoads(stdout[1][2]).val
                 = PyDict(("dry_run" :> PyBool(TRUE)) @@ ("command" :> PyStr(WouldExecute)))
       ELSE stdout[1] = <<"text", DryRunPrefix \o WouldExecute>>

C19_JsonReached ==
    /\ DryRunOfFetch /\ pc = "done"
    /\ argv.changeid = PyNone
    /\ json_output

\* a dry run without connection settings
C19_NotConfiguredReached ==
    /\ DryRunOfFetch /\ pc = "fatal"
    /\ ~Configured

\* the invocation fetches (no --file, no dry run) and the fetch succeeds
FetchSucceeds ==
    /\ ~Truthy(argv.review_file)
    /\ Truthy(argv.changeid) \/ Truthy(argv.query)
    /\ ~argv.dry_run
    /\ Configured
    /\ remote.started /\ remote.returncode = 0

\* the names the saved file may have
SaveNames ==
    IF Truthy(argv.output) THEN {argv.output.v}
    ELSE IF Truthy(argv.changeid)
    THEN {<<"r", "e", "v", "i", "e", "w", "-">> \o RemovePrefix(argv.changeid.v, ChangePrefix) \o <<".", "j", "s", "o", "n">>}
    ELSE {<<"q", "u", "e", "r", "y", "-">> \o now \o <<".", "j", "s", "o", "n">> : now \in Clock}

\* C20: when --save is used on a fetch, then from the moment the text is
\* loaded, before parse_json_content is entered and also after it has
\* failed, exactly one file has been written: it holds the fetched text
\* verbatim and is named by --output, else review-<id>.json for a change
\* id, else query-<timestamp>.json; without --save no file is ever written.
C20_SavedBeforeParsing ==
    /\ (FetchSucceeds /\ argv.save /\ pc # "start") =>
           /\ Len(written) = 1
           /\ written[1].content = remote.stdout
           /\ written[1].name \in SaveNames
    /\ ~argv.save => written = <<>>

\* the fetched text was saved and then failed to parse
C20_Witness ==
    /\ FetchSucceeds /\ argv.save
    /\ pc = "fatal" /\ error = "JSONDecodeError"
    /\ written # <<>>
    /\ written[1].content = <<"{">>

\* saved, the parse not yet entered
C20_BeforeParseReached ==
    /\ FetchSucceeds /\ argv.save
    /\ pc = "loaded" /\ calls = <<"_load_json_content">>
    /\ written # <<>>
    /\ written[1].content = EmptyReview

\* saved under the name of a query
C20_TimestampReached ==
    /\ FetchSucceeds /\ argv.save /\ pc = "done"
    /\ ~Truthy(argv.changeid) /\ ~Truthy(argv.output)
    /\ written # <<>>

\* fetched without --save
C20_NotSavedReached ==
    /\ FetchSucceeds /\ ~argv.save /\ pc = "done"
    /\ ran # <<>>

\* the invocation fetches (no --file, no dry run), the settings resolve
Fetches ==
    /\ ~Truthy(argv.review_file)
    /\ Truthy(argv.changeid) \/ Truthy(argv.query)
    /\ ~argv.dry_run
    /\ Configured

\* ssh cannot be run, or exits non-zero
FetchFails == ~remote.started \/ remote.returncode # 0

\* C21: when the remote fetch process exits non-zero or cannot be run, the
\* invocation has ended, as soon as the fetch was attempted, with a non-zero
\* status and a fatal diagnostic: no file is saved, nothing is parsed, no
\* review output is printed, and no further step follows.
C21_FetchFailureAborts ==
    (Fetches /\ FetchFails /\ pc # "start") =>
        /\ pc = "fatal"
        /\ exit_code # 0 /\ exit_code # Running
        /\ written = <<>>
        /\ calls = <<"_load_json_content">>
        /\ data = PyNone /\ comments = <<>>
        /\ stdout = <<>>
        /\ stderr[Len(stderr)][1] = "FATAL"
        /\ ~ENABLED NextCli

\* ssh ran and exited non-zero on an invocation that asked to save
C21_Witness ==
    /\ Fetches /\ pc = "fatal"
    /\ remote.started /\ remote.returncode # 0
    /\ argv.save
    /\ ran # <<>>

\* ssh could not be run
C21_NotStartedReached ==
    /\ Fetches /\ pc = "fatal"
    /\ ~remote.started
    /\ ran = <<>>

\* no --file, no change id, no query
NoSource ==
    /\ ~Truthy(argv.review_file)
    /\ ~Truthy(argv.changeid)
    /\ ~Truthy(argv.query)

\* standard input is a terminal, or what is read from it is empty
NothingOnStdin == stdin.isatty \/ stdin.text = <<>>

\* the diagnostics that are fatal
Fatals == {i \in DOMAIN stderr : stderr[i][1] = "FATAL"}

\* C22: when no file, change id or query is given and standard input is a
\* terminal or empty, nothing is parsed or printed and the invocation ends
\* with a non-zero status and the diagnostic `No input provided`; and no
\* invocation has exit status 0 after a fatal diagnostic or an exception.
C22_NoInputIsFatal ==
    /\ (NoSource /\ NothingOnStdin /\ pc # "start") =>
           /\ calls = <<"_load_json_content">>
           /\ data = PyNone /\ comments = <<>>
           /\ stdout = <<>>
           /\ IF pc = "loaded" THEN json_content = <<>> /\ ENABLED ParseJsonContent
              ELSE /\ pc = "fatal"
                   /\ exit_code # 0 /\ exit_code # Running
                   /\ stderr = << <<"FATAL", "No input provided">> >>
    /\ exit_code = 0 => (Fatals = {} /\ error = "none" /\ pc = "done")

\* nothing given, on a terminal
C22_Witness ==
    /\ NoSource /\ stdin.isatty
    /\ pc = "fatal"
    /\ error = "No input provided"

\* nothing given, an empty standard input
C22_EmptyReached ==
    /\ NoSource /\ ~stdin.isatty /\ stdin.text = <<>>
    /\ pc = "fatal"

\* a fetch that gave nothing
C22_EmptyFetchReached ==
    /\ Fetches /\ ~FetchFails /\ remote.stdout = <<>>
    /\ pc = "fatal" /\ error = "No input provided"

\* an invocation that exits 0 after piped input
C22_ExitZeroReached ==
    /\ NoSource /\ exit_code = 0 /\ stdout # <<>>

\* the character at position i of s follows an odd run of backslashes
RECURSIVE Escaped(_, _)
Escaped(s, i) == i > 1 /\ s[i - 1] = "\\" /\ ~Escaped(s, i - 1)

\* for each position of s, whether its character is escaped
Escapes(s) == [i \in 1..Len(s) |-> Escaped(s, i)]

\* no position left out
NoEscapes(s) == [i \in 1..Len(s) |-> FALSE]

\* for each position i of s, whether it lies in a quoted string (or is the
\* quote opening it): an odd number of quotes that are not escaped stands
\* at or before it
InStrings(s, esc) ==
    [i \in 0..Len(s) |->
        Cardinality({j \in 1..i : s[j] = "\"" /\ ~esc[j]}) % 2 = 1]

\* position i of s lies in a quoted string
InQuotedString(s, i) == InStrings(s, Escapes(s))[i]

\* for each k, the number of { minus the number of } among the first k
\* characters of s, counting those outside quoted strings and not in skip
Balances(s, ins, skip) ==
    [k \in 0..Len(s) |->
        Cardinality({i \in 1..k : s[i] = "{" /\ ~ins[i] /\ ~skip[i]})
        - Cardinality({i \in 1..k : s[i] = "}" /\ ~ins[i] /\ ~skip[i]})]

\* the number of iterations the loop makes: up to its return, or all of s
ScanEnd(s) == IF FirstObjectEnd(s) > 0 THEN FirstObjectEnd(s) ELSE Len(s)

\* the scanner's state after each iteration
ScanStates(s) == [k \in 0..ScanEnd(s) |-> ScanState(s, k)]

\* the first position where bal goes from positive to zero, 0 if none
FirstReturnToZero(bal) ==
    LET back == {k \in DOMAIN bal \ {0} : bal[k] = 0 /\ bal[k - 1] > 0}
    IN  IF back = {} THEN 0 ELSE CHOOSE k \in back : \A m \in back : k <= m

\* the scan st of s keeps its in-string flag at ins and its depth at bal,
\* and returns where bal first comes back to zero
ScanFollows(s, st, ins, bal) ==
    /\ \A k \in DOMAIN st : st[k].in_string = ins[k] /\ st[k].depth = bal[k]
    /\ FirstObjectEnd(s) = FirstReturnToZero(bal)

\* parse_json_content has just run its scan on json_content
Scanned ==
    /\ pc \in {"parsed", "fatal"}
    /\ calls # <<>>
    /\ calls[Len(calls)] = "parse_json_content"

\* C23 as stated: at every step of the scan the depth counter is the
\* number of { minus the number of } seen so far outside quoted strings,
\* no escaped quote toggles the in-string flag, and the cut is the first
\* position where that count comes back to zero from a positive value.
C23_DepthIsBracesOutsideStrings ==
    Scanned =>
    \A ins \in {InStrings(json_content, Escapes(json_content))} :
        ScanFollows(json_content, ScanStates(json_content), ins,
                    Balances(json_content, ins, NoEscapes(json_content)))

\* C23, amended: at every step of the scan the depth counter is the number
\* of { minus the number of } seen so far that stand outside quoted
\* strings and do not follow an unescaped backslash; a quote after an
\* unescaped backslash never toggles the in-string flag; the cut is the
\* first position where that count comes back to zero from a positive
\* value, which for a well-formed first object is its own closing brace,
\* where the count of all braces outside strings first comes back to zero.
C23_DepthIsUnescapedBracesOutsideStrings ==
    Scanned =>
    \A esc \in {Escapes(json_content)} :
    \A ins \in {InStrings(json_content, esc)} :
        /\ ScanFollows(json_content, ScanStates(json_content), ins,
                       Balances(json_content, ins, esc))
        /\ \A k \in 1..Len(json_content) :
              IsObjectText(SubSeq(json_content, 1, k))
                  => /\ FirstObjectEnd(json_content) = k
                     /\ FirstReturnToZero(
                            Balances(json_content, ins,
                                     NoEscapes(json_content))) = k

\* a first object, parsed, whose string holds a brace and an escaped
\* quote, followed by more text
C23_Witness ==
    /\ pc = "parsed"
    /\ \E k \in 1..(Len(json_content) - 1) :
          /\ IsObjectText(SubSeq(json_content, 1, k))
          /\ FirstObjectEnd(json_content) = k
          /\ \E i \in 1..k : /\ json_content[i] \in {"{", "}"}
                             /\ InQuotedString(json_content, i)
          /\ \E i \in 1..k : /\ json_content[i] = "\""
                             /\ Escaped(json_content, i)

\* a text scanned to a brace that follows a backslash outside any string
C23_EscapedBraceReached ==
    /\ Scanned
    /\ \E i \in 1..ScanEnd(json_content) :
          /\ json_content[i] \in {"{", "}"}
          /\ Escaped(json_content, i)
          /\ ~InQuotedString(json_content, i)

\* a text whose quote follows an escaped backslash pair, and so toggles
C23_EscapedPairReached ==
    /\ Scanned
    /\ \E i \in 3..ScanEnd(json_content) :
          /\ json_content[i] = "\""
          /\ json_content[i - 1] = "\\"
          /\ json_content[i - 2] = "\\"
          /\ ~Escaped(json_content, i)
          /\ ScanState(json_content, i).in_string
                 # ScanState(json_content, i - 1).in_string

\* parser.display_review has printed a non-empty comment list
ParserDisplayed == pc = "returned" /\ calls = <<"parser.display_review">> /\ comments # <<>>

\* the sub-headers printed for file f
SubHeaders(f) == {i \in 1..Len(stdout) : stdout[i][1] = "file" /\ stdout[i][2] = f}

\* C26: for any comment list it is given, in any order,
\* parser.display_review prints exactly one sub-header for each distinct
\* file (it sorts, or checks sortedness, before it groups).
C26_ParserDisplayOneSubHeaderPerFile ==
    ParserDisplayed =>
        \A c \in Range(comments) : Cardinality(SubHeaders(c.file)) = 1

\* what the code does instead: one sub-header for each run of adjacent
\* comments of one file, in the order given
C26_SubHeaderPerRun ==
    ParserDisplayed =>
        \A c \in Range(comments) :
            Cardinality(SubHeaders(c.file))
                = Cardinality({k \in 1..Len(comments) :
                                  /\ comments[k].file = c.file
                                  /\ k > 1 => comments[k - 1].file # c.file})

\* two comments of one file around a comment of another file: the file
\* gets two sub-headers
C26_TwoSubHeadersReached ==
    /\ ParserDisplayed
    /\ Len(comments) = 3
    /\ comments[1].file = comments[3].file
    /\ comments[1].file # comments[2].file
    /\ Cardinality(SubHeaders(comments[1].file)) = 2

\* load_gerrit_config has returned a configuration
GerritReturned == pc = "returned" /\ calls = <<"load_gerrit_config">>

\* ~/.env.gerrit is there, can be read and parsed, and gives name
FileGives(name) ==
    /\ home.env_file.exists
    /\ _parse_env_file(home.env_file).ok
    /\ name \in DOMAIN _parse_env_file(home.env_file).env

\* the value of name by the precedence environment, file, default
Resolved(name, default) ==
    IF EnvSet(name) THEN PyStr(environ[name])
    ELSE IF FileGives(name) THEN PyStr(_parse_env_file(home.env_file).env[name])
    ELSE default

\* C24: the configuration load_gerrit_config returns has each of host,
\* port and user resolved on its own by the precedence environment
\* variable, then ~/.env.gerrit, then default ("29418" for the port): in
\* particular a GERRIT_PORT set in the environment is the port returned,
\* whichever other fields come from the file.  (A GERRIT_PORT that is in
\* the environment but empty is left open.)
C24_PerFieldPrecedence ==
    GerritReturned =>
        /\ Loaded.host = Resolved("GERRIT_HOST", PyNone)
        /\ Loaded.user = Resolved("GERRIT_USER", PyNone)
        /\ ("GERRIT_PORT" \in DOMAIN environ => EnvSet("GERRIT_PORT"))
              => Loaded.port = Resolved("GERRIT_PORT", PyStr(DefaultPort))

\* what the code does instead: the file is read only when the environment
\* lacks host or user, and then the file's port, if it gives one, is the
\* port returned, before the environment's
C24_FilePortWhenFileIsRead ==
    GerritReturned =>
        /\ Loaded.host = Resolved("GERRIT_HOST", PyNone)
        /\ Loaded.user = Resolved("GERRIT_USER", PyNone)
        /\ Loaded.port =
              IF ~EnvSuppliesHostAndUser /\ FileGives("GERRIT_PORT")
              THEN PyStr(_parse_env_file(home.env_file).env["GERRIT_PORT"])
              ELSE IF "GERRIT_PORT" \in DOMAIN environ
              THEN PyStr(environ["GERRIT_PORT"])
              ELSE PyStr(DefaultPort)

\* the environment sets the port and the user, the file gives the host and
\* another port: the port returned is the file's
C24_EnvPortReplacedReached ==
    /\ GerritReturned
    /\ EnvSet("GERRIT_PORT") /\ EnvSet("GERRIT_USER") /\ ~EnvSet("GERRIT_HOST")
    /\ FileGives("GERRIT_PORT")
    /\ Loaded.port # PyStr(environ["GERRIT_PORT"])
    /\ Loaded.user = PyStr(environ["GERRIT_USER"])

\* --file is given
FileGiven == Truthy(argv.review_file)

\* a line of the output that shows the command of a dry run
IsDryRunLine(l) ==
    \/ l[1] = "text" /\ StartsWith(l[2], DryRunPrefix)
    \/ l[1] = "json" /\ JsonLoads(l[2]).ok /\ HasKey(JsonLoads(l[2]).val, "dry_run")

\* the run took its input from the file of --file: the file was read and
\* its text is what goes on to be parsed (or the file cannot be read and
\* the run ends there), and no command was built, shown or executed
FileIsTheInput ==
    /\ calls[1] = "_load_json_content"
    /\ ran = <<>>
    /\ written = <<>>
    /\ \A i \in DOMAIN stdout : ~IsDryRunLine(stdout[i])
    /\ IF read_file(files, argv.review_file.v).ok
       THEN /\ json_content = read_file(files, argv.review_file.v).text
            /\ pc # "loaded" => calls[2] = "parse_json_content"
       ELSE /\ pc = "fatal"
            /\ stderr[Len(stderr)] = <<"FATAL", "Cannot read", argv.review_file.v>>

\* C25: when --file is given, the file is the input that is parsed and
\* displayed, with or without --dry-run and also when --changeid or
\* --query is given with it, and no remote command is built or executed.
C25_FileIsTheInput ==
    (FileGiven /\ pc # "start") => FileIsTheInput

\* what the code does instead: the file is the input unless --dry-run is
\* given together with --changeid or --query; then the file is not read,
\* and the command of the fetch is shown if the settings resolve
C25_FileIsTheInputUnlessDryRunOfFetch ==
    (FileGiven /\ pc # "start") =>
        IF DryRunOfFetch
        THEN /\ NothingDone
             /\ stderr[1] = <<"WARNING", "--dry-run has no effect when reading from file">>
             /\ Configured => pc = "done" /\ CommandShown
        ELSE FileIsTheInput

\* --file, --dry-run and --changeid together: the command is shown and
\* the file is not read
C25_DryRunWinsReached ==
    /\ FileGiven /\ DryRunOfFetch /\ pc = "done"
    /\ argv.review_file = PyStr(ReviewFile)
    /\ Truthy(argv.changeid)
    /\ CommandShown
    /\ json_content = <<>>

\* --file and --dry-run alone: the file is parsed and displayed
C25_FileParsedReached ==
    /\ FileGiven /\ argv.dry_run /\ ~DryRunOfFetch /\ pc = "done"
    /\ json_content = EmptyReview
    /\ calls = <<"_load_json_content", "parse_json_content", "extract_comments",
                 "_output_result">>

\* what the other of the two configuration functions gives in the same
\* environment and with the same config file
OtherLoader ==
    IF calls = <<"load_config">> THEN get_config_with_sources(environ, home)
    ELSE load_config(environ, home)

\* the function called and the other one both raise ConfigError, or both
\* return the same host, port and user
LoadersAgree ==
    /\ result.raised = OtherLoader.raised
    /\ result.raised \in {"none", "ConfigError"}
    /\ result.cfg = OtherLoader.cfg

\* the environment variables that are set (not empty)
EnvVarsSet == {n \in EnvNames : EnvSet(n)}

\* C27: for every combination of the three environment variables (set or
\* not) and every config file (absent, invalid or valid), load_config and
\* get_config_with_sources either both raise ConfigError or both return
\* the same host, port and user.
C27_LoadersAgree ==
    (pc # "call" /\ Len(calls) = 1) => LoadersAgree

\* what the code does instead: the two agree unless some but not all of
\* the three variables are set and the config file is valid; then
\* load_config returns the file's three values and
\* get_config_with_sources the environment's value for each variable
\* that is set
C27_LoadersAgreeUnlessPartialEnvironment ==
    (pc # "call" /\ Len(calls) = 1) =>
        IF EnvVarsSet \notin {{}, EnvNames} /\ FileIsValid
        THEN /\ load_config(environ, home).cfg = load_config_file(home).cfg
             /\ get_config_with_sources(environ, home).cfg.host
                   = IF EnvSet("GERRIT_HOST") THEN PyStr(environ["GERRIT_HOST"])
                     ELSE load_config_file(home).cfg.host
             /\ get_config_with_sources(environ, home).cfg.port
                   = IF EnvSet("GERRIT_PORT") THEN PyStr(environ["GERRIT_PORT"])
                     ELSE load_config_file(home).cfg.port
             /\ get_config_with_sources(environ, home).cfg.user
                   = IF EnvSet("GERRIT_USER") THEN PyStr(environ["GERRIT_USER"])
                     ELSE load_config_file(home).cfg.user
        ELSE LoadersAgree

\* the three variables are set and the file is valid, with other values:
\* get_config_with_sources has returned what load_config returns
C27_Witness ==
    /\ pc = "returned" /\ calls = <<"get_config_with_sources">>
    /\ EnvVarsSet = EnvNames
    /\ FileIsValid
    /\ result.cfg = load_config(environ, home).cfg
    /\ result.cfg # load_config_file(home).cfg

\* two of the variables are set and there is no valid file: load_config
\* has raised ConfigError, as get_config_with_sources does
C27_BothRaiseReached ==
    /\ pc = "raised" /\ calls = <<"load_config">>
    /\ Cardinality(EnvVarsSet) = 2
    /\ ~FileIsValid
    /\ OtherLoader.raised = "ConfigError"

\* only GERRIT_HOST is set and the file is valid: load_config has returned
\* the file's host, get_config_with_sources gives the environment's
C27_DisagreeReached ==
    /\ pc = "returned" /\ calls = <<"load_config">>
    /\ EnvVarsSet = {"GERRIT_HOST"}
    /\ FileIsValid
    /\ result.cfg.host = load_config_file(home).cfg.host
    /\ OtherLoader.raised = "none"
    /\ OtherLoader.cfg.host = PyStr(environ["GERRIT_HOST"])
    /\ OtherLoader.cfg.host # result.cfg.host
    /\ OtherLoader.cfg.port = result.cfg.port

\* ssh -p <port> <user>@<host> gerrit query --format=JSON --patch-sets
\* --files --comments <query>, argument by argument
QueryCommand(port, user, host, q) ==
    <<<<"s", "s", "h">>, <<"-", "p">>, port, user \o <<"@">> \o host,
      <<"g", "e", "r", "r", "i", "t">>, <<"q", "u", "e", "r", "y">>,
      <<"-", "-", "f", "o", "r", "m", "a", "t", "=", "J", "S", "O", "N">>,
      <<"-", "-", "p", "a", "t", "c", "h", "-", "s", "e", "t", "s">>,
      <<"-", "-", "f", "i", "l", "e", "s">>,
      <<"-", "-", "c", "o", "m", "m", "e", "n", "t", "s">>,
      q>>

\* that command for the settings that resolve and the query asked for
AskedCommand ==
    QueryCommand(load_gerrit_config(environ, home).cfg.port.v,
                 load_gerrit_config(environ, home).cfg.user.v,
                 load_gerrit_config(environ, home).cfg.host.v,
                 AskedQuery)

\* the one line a dry run printed shows the command cmd, its arguments
\* separated by single spaces
Shows(cmd) ==
    /\ Len(stdout) = 1
    /\ IF json_output
       THEN /\ stdout[1][1] = "json"
            /\ JsonLoads(stdout[1][2]).ok
            /\ Get(JsonLoads(stdout[1][2]).val, "command", PyNone)
                  = PyStr(JoinWith(<<" ">>, cmd))
       ELSE stdout[1] = <<"text", DryRunPrefix \o JoinWith(<<" ">>, cmd)>>

\* a fetch was started
Fetched == calls # <<>> /\ calls[1] = "_load_json_content" /\ ran # <<>>

\* C28: for the same settings and query string, the command a dry run
\* prints (build_query_command with its defaults) is, argument for
\* argument, the command a fetch executes (build_ssh_command): ssh -p
\* <port> <user>@<host> gerrit query --format=JSON --patch-sets --files
\* --comments <query>, the query string last.
C28_DryRunCommandIsFetchCommand ==
    /\ (DryRunOfFetch /\ pc = "done") =>
           /\ build_query_command(load_gerrit_config(environ, home).cfg, AskedQuery)
                 = AskedCommand
           /\ build_ssh_command(load_gerrit_config(environ, home).cfg, AskedQuery)
                 = AskedCommand
           /\ Shows(AskedCommand)
    /\ Fetched =>
           /\ ran = <<AskedCommand>>
           /\ ran[1] = build_query_command(load_gerrit_config(environ, home).cfg,
                                           AskedQuery)
           /\ ran[1][Len(ran[1])] = AskedQuery

\* a dry run of a query has printed its command
C28_Witness ==
    /\ DryRunOfFetch /\ pc = "done"
    /\ argv.changeid = PyNone
    /\ ~json_output
    /\ Shows(AskedCommand)
    /\ Len(AskedCommand) = 11

\* a fetch of a bare change id has run the command, with the settings of
\* ~/.env.gerrit
C28_FetchReached ==
    /\ Fetched
    /\ argv.changeid = PyStr(<<"7">>)
    /\ environ = <<>>
    /\ ran[1] = AskedCommand
    /\ ran[1][3] = <<"2">>

\* the places of the records of the review: patch set k, record j
RecordPlaces ==
    UNION {{<<k, j>> : j \in 1..Len(PatchSetComments(PatchSets(data)[k]))} :
              k \in 1..Len(PatchSets(data))}

\* the record at a place
RecordAt(p) == PatchSetComments(PatchSets(data)[p[1]])[p[2]]

\* the places of the records that are validated and pass the filter
KeptPlaces ==
    {p \in RecordPlaces :
        /\ IsValidRecord(RecordAt(p))
        /\ unresolved_only => ExpectedComment(RecordAt(p)).unresolved}

\* C29: the list extract_comments returns is a permutation of the
\* validated (and, with unresolved_only, unresolved) records of all patch
\* sets: its elements are, one for one, the comments of those records,
\* none lost, duplicated or altered, whatever the number of patch sets.
C29_PermutationOfKeptRecords ==
    Returned =>
        /\ Len(comments) = Cardinality(KeptPlaces)
        /\ \E f \in [1..Len(comments) -> KeptPlaces] :
              /\ \A i, j \in 1..Len(comments) : f[i] = f[j] => i = j
              /\ \A i \in 1..Len(comments) :
                    comments[i] = ExpectedComment(RecordAt(f[i]))

\* two patch sets with three records, one of them left out: the first
\* record of patch set 1 is returned after a record of patch set 2
C29_Witness ==
    /\ pc = "extracted"
    /\ Len(PatchSets(data)) = 2
    /\ Cardinality(RecordPlaces) = 3
    /\ Len(comments) = 2
    /\ <<1, 1>> \in KeptPlaces
    /\ \E p \in KeptPlaces : p[1] = 2 /\ comments[1] = ExpectedComment(RecordAt(p))
    /\ comments[2] = ExpectedComment(RecordAt(<<1, 1>>))
    /\ comments[2] # comments[1]

\* a review whose records are all left out
C29_NothingKeptReached ==
    /\ pc = "extracted"
    /\ RecordPlaces # {}
    /\ KeptPlaces = {}
    /\ comments = <<>>

====
